---- MODULE Spec2Model ----
(***************************************************************************)
(* Verification model of mag1art/agent-orchestrator: the GitLab tracker    *)
(* plugin (REST client with retry/backoff and per-attempt timeout, webhook *)
(* validation, tracker adapter), the core plugin registry and shellEscape. *)
(*                                                                         *)
(* The sub-systems share the module; each has its own specification:       *)
(*   SpecRequest     one call of GitLabClient.request                      *)
(*   SpecWebhook     one call of handleWebhook                             *)
(*   SpecRegistry    a plugin registry with register/loadBuiltins/spawn    *)
(*   SpecRegistries  two registries with register/get/list/loadBuiltins    *)
(*   SpecShell       one call of shellEscape                               *)
(*   SpecTracker     createGitLabTracker and the reading calls             *)
(*   SpecUpdate      two updateIssue calls on one issue                    *)
(*   SpecUrl         defaultBaseUrl of a configured base URL               *)
(*   SpecWrite       one createIssue / updateIssue call and the server     *)
(* Two revisions of the client, of the webhook handler and of the adapter  *)
(* are in the source tree; impl / whImpl / tkImpl selects the revision.    *)
(***************************************************************************)
EXTENDS Integers, Sequences, FiniteSets, TLC

VARIABLES
    \* ---- GitLabClient.request ----
    impl,        \* "client" (client.ts) or "gitlabClient" (gitlabClient.ts)
    maxRetries,  \* this.maxRetries
    pc,          \* position of the call: idle, fetch, text, sleep, returned, thrown
    attempt,     \* local variable attempt
    timers,      \* timers[k]: timeout timer of attempt k: pending, fired, cancelled
    res,         \* the Response of the current attempt (status, body on the wire)
    hist,        \* what happened to each concluded attempt (history)
    result,      \* value returned by request
    error,       \* error thrown by request
    delays,      \* the delays slept before each retry, in ms
    \* ---- handleWebhook ----
    whImpl,      \* "webhookHandler" (webhookHandler.ts) or "part_002"
    whHeaders,   \* the request headers (both spellings of each header)
    whPayload,   \* the request payload
    whSecret,    \* the configured secret (Undefined, "" or a token)
    whPc,        \* ready, returned, thrown
    whEvent,     \* the event returned
    whError,     \* the error thrown
    whOps,       \* the validation operations executed, in order
    \* ---- plugin registry ----
    envOk,       \* envOk[r]: built-ins that imported and constructed during the load on r
    plugins,     \* plugins[r]: the Map of registry r, in insertion order
    created,     \* number of plugin instances constructed so far
    loadCall,    \* loadCall[r]: the load running on r (none, loadBuiltins, loadFromConfig)
    loadIdx,     \* loadIdx[r]: index of the built-in whose import is awaited
    loadEnd,     \* loadEnd[r]: how the last load on r ended (none, done, thrown)
    loadOk,      \* loadOk[r]: built-ins registered by the current/last load on r
    loadResolved,\* loadResolved[r]: built-ins get resolved when the last load on r ended
    otherBound,  \* otherBound[r]: pairs bound before the load on r or by direct register calls
    everBound,   \* everBound[r]: pairs some register call has bound
    lastReg,     \* the last register call and its outcome
    sessions,    \* sessions spawned by the Session Manager
    lastSpawn,   \* the last spawn call and its outcome
    lastLookup,  \* the last get/list call and its result, since the last register
    \* ---- GitLab tracker (createGitLabTracker) ----
    tkImpl,      \* the revision of the adapter (adapter, part_003)
    tkCfgToken,  \* cfg.token
    tkEnvToken,  \* process.env["GITLAB_TOKEN"]
    tkPc,        \* init, created, failed
    tkClients,   \* number of GitLabClient objects constructed
    tkRequests,  \* number of HTTP requests made through the client
    tkError,     \* the error createGitLabTracker threw
    tkLast,      \* the last getIssue/isCompleted/listIssues/createIssue call
    srvLabels,   \* the labels of the issue on the GitLab server
    calls,       \* calls[c]: the updateIssue call c
    \* ---- shellEscape ----
    shArg,       \* the argument
    shPc,        \* ready, escaped
    shEscaped,   \* shellEscape(shArg)
    \* ---- defaultBaseUrl ----
    urlImpl,     \* "client" (client.ts) or "gitlabClient" (gitlabClient.ts)
    urlIn,       \* the configured base URL (Undefined when absent)
    urlPc,       \* ready, normalized, renormalized
    urlOut,      \* this.baseUrl = defaultBaseUrl(urlIn)
    urlAgain,    \* defaultBaseUrl(urlOut)
    \* ---- one writing call of the tracker (createIssue / updateIssue) ----
    wrClient,    \* the revision of the client the adapter uses
    wrAdapter,   \* the revision of the adapter
    wrMaxRetries,\* this.maxRetries of the client
    wrCall,      \* the call and its arguments
    wrPc,        \* idle, the request in flight, returned, thrown
    wrAttempt,   \* attempt of the request in flight
    wrKeys,      \* Object.keys(payload) of updateIssue
    wrSent,      \* the HTTP requests sent, one entry per attempt, in order
    wrFailed,    \* the request whose error the call threw
    srvIssues,   \* issues created on the server by the call
    srvNotes,    \* notes created on the server by the call
    srvPuts      \* PUTs the server has applied to the issue

reqVars == <<impl, maxRetries, pc, attempt, timers, res, hist, result, error, delays>>

whVars == <<whImpl, whHeaders, whPayload, whSecret, whPc, whEvent, whError, whOps>>

regVars == <<envOk, plugins, created, loadCall, loadIdx, loadEnd, loadOk, loadResolved,
             otherBound, everBound, lastReg, sessions, lastSpawn, lastLookup>>

tkVars == <<tkImpl, tkCfgToken, tkEnvToken, tkPc, tkClients, tkRequests, tkError, tkLast,
            srvLabels, calls>>

shVars == <<shArg, shPc, shEscaped>>

urlVars == <<urlImpl, urlIn, urlPc, urlOut, urlAgain>>

wrVars == <<wrClient, wrAdapter, wrMaxRetries, wrCall, wrPc, wrAttempt, wrKeys, wrSent,
            wrFailed, srvIssues, srvNotes, srvPuts>>

vars == <<reqVars, whVars, regVars, tkVars, shVars, urlVars, wrVars>>

(***************************************************************************)
(* Bounds                                                                  *)
(***************************************************************************)
MaxRetriesBound == 3

\* longest token / secret string
MaxTokenLen == 2

\* width of a digest (SHA-256 has 256 bits; collision-free up to 2^DigestBits
\* distinct inputs)
DigestBits == 8

\* number of entries of BUILTIN_PLUGINS that are modelled
NumBuiltins == 2

\* plugin instances constructed in one run
MaxInstances == 3

\* Longest argument of shellEscape
MaxArgLen == 3

\* HTTP requests made through one tracker in one run
MaxRequests == 3

\* Longest configured base URL, in pieces
MaxUrlLen == 5

(***************************************************************************)
(* GitLabClient.request                                                    *)
(***************************************************************************)
Impls == {"client", "gitlabClient"}

\* maxRetries is taken from the options unvalidated (opts.maxRetries ?? 3)
MaxRetriesValues == 0 .. MaxRetriesBound

\* HTTP statuses the server may answer with
Statuses == {200, 404, 429, 500}

\* Bodies on the wire: "" , a JSON document, text that is not JSON
Bodies == {"empty", "json", "garbage"}

\* A non-2xx body only ends up in the error message
Responses ==
    {[status |-> s, body |-> b] : s \in {200}, b \in Bodies}
        \cup {[status |-> s, body |-> "garbage"] : s \in Statuses \ {200}}

NoResponse == [status |-> 0, body |-> "none"]

NoError == [name |-> "none", code |-> "none", status |-> 0]

\* DOMException thrown by fetch / res.text() when the signal aborts
AbortError == [name |-> "AbortError", code |-> "none", status |-> 0]

\* gitlabClient.ts:115-117
TimeoutError == [name |-> "TimeoutError", code |-> "none", status |-> 0]

\* JSON.parse on text that is not JSON
SyntaxError == [name |-> "SyntaxError", code |-> "none", status |-> 0]

\* new Error(`GitLab API ${res.status} ...`)
HttpError(status) == [name |-> "Error", code |-> "none", status |-> status]

\* Rejections of fetch that are not aborts: errors carrying a system error
\* code, and the bare TypeError("fetch failed") whose code sits on err.cause
FetchErrors ==
    {[name |-> "Error", code |-> c, status |-> 0] :
        c \in {"ECONNRESET", "ENOTFOUND", "ECONNREFUSED"}}
        \cup {[name |-> "TypeError", code |-> "none", status |-> 0]}

\* Math.floor(Math.random() * 100) lies in 0..99; the two extremes are drawn
JitterValues == {0, 99}

RECURSIVE Pow2(_)
Pow2(n) == IF n <= 0 THEN 1 ELSE 2 * Pow2(n - 1)

BackoffFromZero(a) == 100 * Pow2(a)

\* const backoff = 100 * 2 ** (attempt - 1)
Backoff(a) == 100 * Pow2(a - 1)

\* client.ts:92 / gitlabClient.ts:155-156
IsAbort(i, err) ==
    IF i = "client"
    THEN err.name = "AbortError"
    ELSE err.name = "AbortError" \/ err.name = "TimeoutError"

\* the error part of the catch block's retry condition
RetryableError(i, err) ==
    IsAbort(i, err) \/ err.code = "ECONNRESET" \/ err.code = "ENOTFOUND"

\* res.status === 429 || res.status >= 500
RetryableStatus(status) == status = 429 \/ status >= 500

CanRetryOff(a, m) == a <= m

CanRetryEarly(a, m) == a + 1 < m

\* attempt < this.maxRetries
CanRetry(a, m) == a < m

Returns(v) == [next |-> "return", value |-> v, err |-> NoError]
Retries == [next |-> "retry", value |-> "none", err |-> NoError]
Raises(e) == [next |-> "raise", value |-> "none", err |-> e]
Throws(e) == [next |-> "throw", value |-> "none", err |-> e]

\* The try block once the body text is known. text is "empty" when the body
\* is "" or when res.text() rejected (.catch(() => "")).
TryOutcome(status, text, a, m) ==
    IF status >= 200 /\ status < 300
    THEN IF text = "empty" THEN Returns("undefined")
         ELSE IF text = "json" THEN Returns("parsed")
         ELSE Raises(SyntaxError)
    ELSE IF RetryableStatus(status) /\ CanRetry(a, m) THEN Retries
    ELSE Raises(HttpError(status))

\* The catch block
CatchOutcome(i, err, a, m) ==
    IF RetryableError(i, err) /\ CanRetry(a, m) THEN Retries ELSE Throws(err)

\* try + catch: an error raised inside the try block reaches the catch block
AttemptOutcome(i, status, text, a, m) ==
    LET t == TryOutcome(status, text, a, m)
    IN  IF t.next = "raise" THEN CatchOutcome(i, t.err, a, m) ELSE t

FinallyLeaky(i, ts, a) == ts

\* The finally block: gitlabClient.ts cancels the attempt's timer if it has
\* not fired; client.ts has no finally block and never cancels it.
Finally(i, ts, a) ==
    IF i = "gitlabClient" /\ ts[a] = "pending"
    THEN [ts EXCEPT ![a] = "cancelled"]
    ELSE ts

HistResponse(r, read) ==
    [kind |-> "response", status |-> r.status, body |-> r.body, read |-> read,
     err |-> NoError]

HistReject(kind, e) ==
    [kind |-> kind, status |-> 0, body |-> "none", read |-> "none", err |-> e]

\* What the call does once the current attempt's outcome o is known; ts is
\* the timer table at that moment and h the attempt's history entry.
Conclude(o, ts, h) ==
    /\ UNCHANGED <<whVars, regVars, tkVars, shVars, urlVars, wrVars>>
    /\ hist' = Append(hist, h)
    /\ res' = NoResponse
    /\ UNCHANGED <<impl, maxRetries, attempt>>
    /\ CASE o.next = "return" ->
                /\ pc' = "returned"
                /\ result' = o.value
                /\ timers' = Finally(impl, ts, attempt)
                /\ UNCHANGED <<error, delays>>
         [] o.next = "throw" ->
                /\ pc' = "thrown"
                /\ error' = o.err
                /\ timers' = Finally(impl, ts, attempt)
                /\ UNCHANGED <<result, delays>>
         [] o.next = "retry" ->
                \* await setTimeout(backoff + jitter) inside the try block:
                \* the finally block runs only after the sleep
                /\ \E j \in JitterValues :
                        delays' = Append(delays, Backoff(attempt) + j)
                /\ pc' = "sleep"
                /\ timers' = ts
                /\ UNCHANGED <<result, error>>

\* request(...) is called: the first attempt starts and its timer is armed
Request ==
    /\ pc = "idle"
    /\ UNCHANGED <<whVars, regVars, tkVars, shVars, urlVars, wrVars>>
    /\ attempt' = attempt + 1
    /\ timers' = Append(timers, "pending")
    /\ pc' = "fetch"
    /\ UNCHANGED <<impl, maxRetries, res, hist, result, error, delays>>

\* fetch resolves with a Response (status line and headers have arrived)
FetchResolves(r) ==
    /\ pc = "fetch"
    /\ UNCHANGED <<whVars, regVars, tkVars, shVars, urlVars, wrVars>>
    /\ pc' = "text"
    /\ res' = r
    /\ UNCHANGED <<impl, maxRetries, attempt, timers, hist, result, error, delays>>

\* fetch rejects with a network error
FetchRejects(e) ==
    /\ pc = "fetch"
    /\ Conclude(CatchOutcome(impl, e, attempt, maxRetries), timers,
                HistReject("reject", e))

\* res.text() settles: with the body, or rejected (mapped to "")
TextSettles(ok) ==
    /\ pc = "text"
    /\ LET text == IF ok THEN res.body ELSE "empty"
       IN  Conclude(AttemptOutcome(impl, res.status, text, attempt, maxRetries),
                    timers, HistResponse(res, IF ok THEN "ok" ELSE "failed"))

AbortsShared(k, a) == TRUE

\* The controller that timer k aborts is the one created in iteration k of
\* the loop (const controller / fetchController inside while (true)): it is
\* the signal of attempt a's fetch only when k = a
Aborts(k, a) == k = a

\* The timeout timer of attempt k fires. It aborts that attempt's fetch
\* controller: a fetch in flight rejects (in gitlabClient.ts the race rejects
\* with the fetch's AbortError or with the TimeoutError), a body read in
\* flight rejects and is mapped to "", a finished attempt is not affected.
TimerFires(k) ==
    /\ k \in 1 .. Len(timers)
    /\ timers[k] = "pending"
    /\ LET ts == [timers EXCEPT ![k] = "fired"]
       IN  IF Aborts(k, attempt) /\ pc = "fetch"
           THEN \E e \in (IF impl = "client" THEN {AbortError}
                          ELSE {AbortError, TimeoutError}) :
                    Conclude(CatchOutcome(impl, e, attempt, maxRetries), ts,
                             HistReject("timeout", e))
           ELSE IF Aborts(k, attempt) /\ pc = "text"
           THEN Conclude(AttemptOutcome(impl, res.status, "empty", attempt,
                                        maxRetries),
                         ts, HistResponse(res, "timeout"))
           ELSE /\ timers' = ts
                /\ UNCHANGED <<whVars, regVars, tkVars, shVars, urlVars, wrVars>>
                /\ UNCHANGED <<impl, maxRetries, pc, attempt, res, hist, result,
                               error, delays>>

\* The backoff sleep ends: continue runs the finally block of the attempt
\* that failed, then the loop starts the next attempt and arms its timer
Wake ==
    /\ pc = "sleep"
    /\ UNCHANGED <<whVars, regVars, tkVars, shVars, urlVars, wrVars>>
    /\ attempt' = attempt + 1
    /\ timers' = Append(Finally(impl, timers, attempt), "pending")
    /\ pc' = "fetch"
    /\ UNCHANGED <<impl, maxRetries, res, hist, result, error, delays>>

\* The webhook handler is not part of a run of the client
WebhookParked ==
    /\ whImpl = "webhookHandler"
    /\ whHeaders = <<>>
    /\ whPayload = <<>>
    /\ whSecret = <<>>
    /\ whPc = "off"
    /\ whEvent = <<>>
    /\ whError = "none"
    /\ whOps = <<>>

\* No tracker is created in a run of the other sub-systems
TrackerParked ==
    /\ tkImpl = "adapter"
    /\ tkCfgToken = <<>>
    /\ tkEnvToken = <<>>
    /\ tkPc = "off"
    /\ tkClients = 0
    /\ tkRequests = 0
    /\ tkError = "none"
    /\ tkLast = <<>>
    /\ srvLabels = {}
    /\ calls = <<>>

\* shellEscape is not called in a run of the other sub-systems
ShellParked ==
    /\ shArg = <<>>
    /\ shPc = "off"
    /\ shEscaped = <<>>

\* defaultBaseUrl is not called in a run of the other sub-systems
UrlParked ==
    /\ urlImpl = "client"
    /\ urlIn = <<>>
    /\ urlPc = "off"
    /\ urlOut = <<>>
    /\ urlAgain = <<>>

\* No writing call is made in a run of the other sub-systems
WriteParked ==
    /\ wrClient = "client"
    /\ wrAdapter = "adapter"
    /\ wrMaxRetries = 0
    /\ wrCall = <<>>
    /\ wrPc = "off"
    /\ wrAttempt = 0
    /\ wrKeys = {}
    /\ wrSent = <<>>
    /\ wrFailed = "none"
    /\ srvIssues = 0
    /\ srvNotes = 0
    /\ srvPuts = 0

\* The registry is not part of a run of the client or the webhook handler
RegistryParked ==
    /\ envOk = <<>>
    /\ plugins = <<>>
    /\ created = 0
    /\ loadCall = <<>>
    /\ loadIdx = <<>>
    /\ loadEnd = <<>>
    /\ loadOk = <<>>
    /\ loadResolved = <<>>
    /\ otherBound = <<>>
    /\ everBound = <<>>
    /\ lastReg = <<>>
    /\ sessions = {}
    /\ lastSpawn = <<>>
    /\ lastLookup = <<>>

InitRequest ==
    /\ WebhookParked
    /\ RegistryParked
    /\ TrackerParked
    /\ ShellParked
    /\ UrlParked
    /\ WriteParked
    /\ impl \in Impls
    /\ maxRetries \in MaxRetriesValues
    /\ pc = "idle"
    /\ attempt = 0
    /\ timers = <<>>
    /\ res = NoResponse
    /\ hist = <<>>
    /\ result = "none"
    /\ error = NoError
    /\ delays = <<>>

NextRequest ==
    \/ Request
    \/ \E r \in Responses : FetchResolves(r)
    \/ \E e \in FetchErrors : FetchRejects(e)
    \/ \E ok \in BOOLEAN : TextSettles(ok)
    \/ \E k \in DOMAIN timers : TimerFires(k)
    \/ Wake

SpecRequest == InitRequest /\ [][NextRequest]_vars

(***************************************************************************)
(* Error taxonomy of the core (spec section 7): errors of a plugin call    *)
(* are converted at the Session/Lifecycle Manager boundary.                *)
(***************************************************************************)
Taxonomy(err) ==
    IF \/ err.status = 429 \/ err.status >= 500
       \/ err.code # "none"
       \/ err.name \in {"TypeError", "AbortError", "TimeoutError"}
    THEN "TransientExternalError"
    ELSE "PermanentExternalError"

(***************************************************************************)
(* Properties of GitLabClient.request                                      *)
(***************************************************************************)
Done == pc \in {"returned", "thrown"}

MaxOf(a, b) == IF a >= b THEN a ELSE b

ServerError(h) == h.kind = "response" /\ h.status >= 500

Success2xx(h) == h.kind = "response" /\ h.status >= 200 /\ h.status < 300

AllServerErrors(n) == \A k \in 1 .. n : ServerError(hist[k])

\* The call has made another attempt after attempt k, or is sleeping before it
Retried(k) == k < attempt \/ (k = attempt /\ pc = "sleep")

\* C1 as stated: for maxRetries >= 1, maxRetries-1 attempts failing with 5xx
\* followed by an attempt that receives a 2xx response make request return
\* instead of throwing.
C1_Original ==
    (/\ maxRetries >= 1
     /\ Len(hist) = maxRetries
     /\ AllServerErrors(maxRetries - 1)
     /\ Success2xx(hist[maxRetries]))
        => pc = "returned"

\* C1 (amended): for maxRetries >= 1, while fewer than maxRetries attempts
\* have failed with 5xx the call has not ended, and when the next attempt
\* receives a 2xx response whose body is empty or valid JSON, request returns
\* (the parsed body when the JSON body was read completely, undefined for an
\* empty or unread body) instead of throwing, on attempt maxRetries.
C1_RetryThenSuccess ==
    /\ (/\ maxRetries >= 1
        /\ Len(hist) < maxRetries
        /\ Len(hist) >= 1
        /\ AllServerErrors(Len(hist)))
            => ~Done
    /\ (/\ maxRetries >= 1
        /\ Len(hist) = maxRetries
        /\ AllServerErrors(maxRetries - 1)
        /\ Success2xx(hist[maxRetries])
        /\ hist[maxRetries].body \in {"empty", "json"})
            => /\ pc = "returned"
               /\ attempt = maxRetries
               /\ result = IF /\ hist[maxRetries].body = "json"
                              /\ hist[maxRetries].read = "ok"
                           THEN "parsed" ELSE "undefined"

C1_Witness ==
    /\ maxRetries = 3
    /\ Len(hist) = 3
    /\ AllServerErrors(2)
    /\ hist[3] = [kind |-> "response", status |-> 200, body |-> "json",
                  read |-> "ok", err |-> NoError]
    /\ pc = "returned"
    /\ result = "parsed"

\* C2 as stated: attempts failing with 5xx maxRetries or more times surface a
\* TransientExternalError after exactly maxRetries attempts.
C2_Original ==
    (/\ Len(hist) >= 1
     /\ Len(hist) >= maxRetries
     /\ AllServerErrors(Len(hist)))
        => /\ pc = "thrown"
           /\ Taxonomy(error) = "TransientExternalError"
           /\ attempt = maxRetries

\* C2 (amended): attempts failing with 5xx maxRetries or more times surface a
\* TransientExternalError (the error carrying the 5xx status) after exactly
\* max(1, maxRetries) attempts and no further attempt.
C2_RetriesExhausted ==
    (/\ Len(hist) >= 1
     /\ Len(hist) >= maxRetries
     /\ AllServerErrors(Len(hist)))
        => /\ pc = "thrown"
           /\ error = HttpError(hist[Len(hist)].status)
           /\ Taxonomy(error) = "TransientExternalError"
           /\ attempt = MaxOf(1, maxRetries)
           /\ Len(hist) = attempt

C2_Witness ==
    /\ maxRetries = 3
    /\ Len(hist) = 3
    /\ AllServerErrors(3)
    /\ pc = "thrown"
    /\ error = HttpError(500)

\* C6: once request has returned or thrown, no timeout timer started by any
\* of its attempts is still pending.
C6_TimersCancelled ==
    Done => \A k \in DOMAIN timers : timers[k] # "pending"

\* The timeout of the attempt fired before the attempt produced its result
TimedOut(h) == h.kind = "timeout" \/ h.read = "timeout"

\* C7: an attempt whose timeout fired before it produced its result (also
\* during the body read) is never returned as success: it is retried while
\* attempt < maxRetries, otherwise request throws a timeout/abort error.
C7_TimeoutNeverSuccess ==
    \A k \in DOMAIN hist :
        TimedOut(hist[k]) =>
            IF k < maxRetries
            THEN Retried(k)
            ELSE pc = "thrown" /\ error.name \in {"AbortError", "TimeoutError"}

\* The attempt did not produce a return value
Failed(h) ==
    \/ h.kind # "response"
    \/ ~Success2xx(h)
    \/ (h.body = "garbage" /\ h.read = "ok")

\* Transient failures as the claim lists them: network error, timeout/abort,
\* HTTP 429, HTTP status >= 500
TransientFailure(h) ==
    \/ h.kind \in {"reject", "timeout"}
    \/ (h.kind = "response" /\ (h.status = 429 \/ h.status >= 500))

\* C8: after a failed attempt another attempt is made if and only if the
\* failure was transient and attempt < maxRetries; a permanent failure is
\* thrown after that single attempt.
C8_RetryIffTransient ==
    \A k \in DOMAIN hist :
        Failed(hist[k]) =>
            /\ Retried(k) <=> (TransientFailure(hist[k]) /\ k < maxRetries)
            /\ ~Retried(k) => (pc = "thrown" /\ k = Len(hist))

\* A step of the call itself (a timer of an earlier attempt is not one)
CallStep ==
    \/ Request
    \/ \E r \in Responses : FetchResolves(r)
    \/ \E e \in FetchErrors : FetchRejects(e)
    \/ \E ok \in BOOLEAN : TextSettles(ok)
    \/ TimerFires(attempt)
    \/ Wake

\* C9: request never makes more than max(1, maxRetries) attempts, every
\* unfinished call can take a further step (its fetch completes or its
\* timeout fires, its body read settles, its sleep ends), a finished call has
\* made at least one attempt, and exactly one when maxRetries <= 0.
C9_BoundedRetries ==
    /\ attempt <= MaxOf(1, maxRetries)
    /\ Len(hist) <= attempt
    /\ ~Done => ENABLED CallStep
    /\ Done => attempt >= 1 /\ Len(hist) = attempt
    /\ (Done /\ maxRetries <= 0) => attempt = 1

C9_Witness ==
    /\ maxRetries = 3
    /\ attempt = 3
    /\ pc = "thrown"
    /\ \A k \in 1 .. 3 : TransientFailure(hist[k])

(***************************************************************************)
(* handleWebhook                                                           *)
(***************************************************************************)
WhImpls == {"webhookHandler", "part_002"}

\* Strings are sequences of characters
Alphabet == {"a", "b"}

RECURSIVE StringsUpTo(_)
StringsUpTo(n) ==
    IF n = 0 THEN {<<>>}
    ELSE LET shorter == StringsUpTo(n - 1)
         IN  shorter \cup {Append(t, c) : t \in shorter, c \in Alphabet}

Tokens == StringsUpTo(MaxTokenLen)

\* the value undefined (no string: its character is outside the alphabet)
Undefined == <<"undefined">>

\* headers["x-gitlab-event"] values
EventNames == {"Issue Hook", "Merge Request Hook", "Push Hook"}

NoEventHeader == "undefined"

HeaderSets ==
    [tokLower : Tokens \cup {Undefined}, tokUpper : Tokens \cup {Undefined},
     evLower : EventNames \cup {NoEventHeader},
     evUpper : {"Issue Hook", NoEventHeader}]

\* payload: null/undefined, an object without object_attributes, with
\* object_attributes lacking action, with object_attributes.action
Payloads ==
    {[defined |-> FALSE, hasAttrs |-> FALSE, action |-> "undefined"],
     [defined |-> TRUE, hasAttrs |-> FALSE, action |-> "undefined"],
     [defined |-> TRUE, hasAttrs |-> TRUE, action |-> "undefined"],
     [defined |-> TRUE, hasAttrs |-> TRUE, action |-> "open"]}

\* a ?? b
Coalesce(a, b) == IF a = Undefined THEN b ELSE a

\* const tokenHeader = headers["x-gitlab-token"] ?? headers["X-Gitlab-Token"]
TokenHeader(h) == Coalesce(h.tokLower, h.tokUpper)

\* headers["x-gitlab-event"] ?? headers["X-Gitlab-Event"] ?? ""
EventHeader(h) ==
    IF h.evLower # NoEventHeader THEN h.evLower
    ELSE IF h.evUpper # NoEventHeader THEN h.evUpper
    ELSE ""

\* if (secret): undefined and "" are falsy
TruthyDefined(secret) == secret # Undefined

Truthy(secret) == secret # Undefined /\ secret # <<>>

CharValue(c) == IF c = "a" THEN 1 ELSE 2

\* The number of a string in the enumeration "", a, b, aa, ab, ...
RECURSIVE StringCode(_)
StringCode(t) ==
    IF t = <<>> THEN 0
    ELSE StringCode(SubSeq(t, 1, Len(t) - 1)) * Cardinality(Alphabet)
            + CharValue(t[Len(t)])

RECURSIVE Bits(_, _)
Bits(n, width) ==
    IF width = 0 THEN <<>> ELSE Append(Bits(n \div 2, width - 1), n % 2)

\* crypto.createHash("sha256").update(str, "utf8").digest(): a digest of
\* fixed length whatever the input's length; distinct inputs of the model
\* have distinct digests (collision resistance)
Sha256(t) == Bits(StringCode(t), DigestBits)

timingSafeEqualFirstByte(a, b) ==
    IF Len(a) # Len(b) THEN "throws"
    ELSE IF a[1] = b[1] THEN "true" ELSE "false"

\* crypto.timingSafeEqual(a, b): throws on buffers of different length,
\* otherwise compares every byte
timingSafeEqual(a, b) ==
    IF Len(a) # Len(b) THEN "throws"
    ELSE IF \A k \in 1 .. Len(a) : a[k] = b[k] THEN "true" ELSE "false"

\* The validation block of webhookHandler.ts: the operations run, and ok
ValidateHashed(tokenHeader, secret) ==
    LET headerStr  == Coalesce(tokenHeader, <<>>)
        secretStr  == secret
        headerHash == Sha256(headerStr)
        secretHash == Sha256(secretStr)
        cmp        == timingSafeEqual(headerHash, secretHash)
    IN  [ok  |-> (cmp = "true"),
         ops |-> <<"normalize", "sha256", "sha256", "timingSafeEqual">>]

\* The validation of part_002: secret && tokenHeader !== secret
ValidatePlain(tokenHeader, secret) ==
    [ok |-> (tokenHeader = secret), ops |-> <<"compare">>]

Validate(i, tokenHeader, secret) ==
    IF i = "webhookHandler"
    THEN ValidateHashed(tokenHeader, secret)
    ELSE ValidatePlain(tokenHeader, secret)

NoEvent ==
    [type |-> "none", action |-> "none", object |-> "none", project |-> "none",
     payload |-> "none"]

\* action: payload.object_attributes?.action ?? "unknown"
ActionOf(p) ==
    IF p.hasAttrs /\ p.action # "undefined" THEN p.action ELSE "unknown"

\* payload.object_attributes
AttrsOf(p) == IF p.hasAttrs THEN "object_attributes" ELSE "undefined"

MapEventIssueOnly(event, p) ==
    IF event = "Issue Hook"
    THEN IF ~p.defined
         THEN [kind |-> "throw", error |-> "TypeError", event |-> NoEvent]
         ELSE [kind |-> "return", error |-> "none",
               event |-> [type |-> "issue", action |-> ActionOf(p),
                          object |-> AttrsOf(p), project |-> "project",
                          payload |-> "none"]]
    ELSE [kind |-> "return", error |-> "none",
          event |-> [type |-> "unknown", action |-> "none", object |-> "none",
                     project |-> "none",
                     payload |-> IF p.defined THEN "payload" ELSE "undefined"]]

\* The mapping of the payload to a normalized event. Reading a property of a
\* null/undefined payload throws a TypeError.
MapEvent(event, p) ==
    IF event = "Issue Hook" \/ event = "Merge Request Hook"
    THEN IF ~p.defined
         THEN [kind |-> "throw", error |-> "TypeError", event |-> NoEvent]
         ELSE [kind |-> "return", error |-> "none",
               event |-> [type |-> IF event = "Issue Hook" THEN "issue"
                                   ELSE "merge_request",
                          action |-> ActionOf(p), object |-> AttrsOf(p),
                          project |-> "project", payload |-> "none"]]
    ELSE [kind |-> "return", error |-> "none",
          event |-> [type |-> "unknown", action |-> "none", object |-> "none",
                     project |-> "none",
                     payload |-> IF p.defined THEN "payload" ELSE "undefined"]]

\* handleWebhook(headers, payload, secret)
handleWebhook(i, h, p, secret) ==
    LET tokenHeader == TokenHeader(h)
        v == IF Truthy(secret) THEN Validate(i, tokenHeader, secret)
             ELSE [ok |-> TRUE, ops |-> <<>>]
        m == MapEvent(EventHeader(h), p)
    IN  IF ~v.ok
        THEN [kind |-> "throw", error |-> "Invalid webhook token",
              event |-> NoEvent, ops |-> v.ops]
        ELSE [kind |-> m.kind, error |-> m.error, event |-> m.event,
              ops |-> v.ops]

\* The client is not part of a run of the webhook handler
RequestParked ==
    /\ impl = "client"
    /\ maxRetries = 0
    /\ pc = "off"
    /\ attempt = 0
    /\ timers = <<>>
    /\ res = NoResponse
    /\ hist = <<>>
    /\ result = "none"
    /\ error = NoError
    /\ delays = <<>>

InitWebhook ==
    /\ RequestParked
    /\ RegistryParked
    /\ TrackerParked
    /\ ShellParked
    /\ UrlParked
    /\ WriteParked
    /\ whImpl \in WhImpls
    /\ whHeaders \in HeaderSets
    /\ whPayload \in Payloads
    /\ whSecret \in Tokens \cup {Undefined}
    /\ whPc = "ready"
    /\ whEvent = NoEvent
    /\ whError = "none"
    /\ whOps = <<>>

\* One delivery: handleWebhook is applied to the request
HandleWebhook ==
    /\ whPc = "ready"
    /\ LET r == handleWebhook(whImpl, whHeaders, whPayload, whSecret)
       IN  /\ whPc' = IF r.kind = "return" THEN "returned" ELSE "thrown"
           /\ whEvent' = r.event
           /\ whError' = r.error
           /\ whOps' = r.ops
    /\ UNCHANGED <<whImpl, whHeaders, whPayload, whSecret>>
    /\ UNCHANGED <<reqVars, regVars, tkVars, shVars, urlVars, wrVars>>

NextWebhook == HandleWebhook

SpecWebhook == InitWebhook /\ [][NextWebhook]_vars

(***************************************************************************)
(* Properties of handleWebhook                                             *)
(***************************************************************************)
\* C3: with a non-empty secret configured, handleWebhook returns an event
\* only if the token header equals the secret exactly; a request whose token
\* header is missing or differs from the secret is rejected with "Invalid
\* webhook token" and yields no event.
C3_TokenMustMatch ==
    (Truthy(whSecret) /\ whPc # "ready") =>
        /\ whPc = "returned" =>
                /\ TokenHeader(whHeaders) = whSecret
                /\ whEvent # NoEvent
        /\ TokenHeader(whHeaders) # whSecret =>
                /\ whPc = "thrown"
                /\ whError = "Invalid webhook token"
                /\ whEvent = NoEvent

C3_Witness ==
    /\ whImpl = "webhookHandler"
    /\ whSecret = <<"a", "b">>
    /\ TokenHeader(whHeaders) = <<"a">>
    /\ whPc = "thrown"
    /\ whError = "Invalid webhook token"

(***************************************************************************)
(* Plugin registry (createPluginRegistry)                                  *)
(***************************************************************************)
\* Each createPluginRegistry() call makes one registry with its own Map;
\* the registry constructed at startup
Registries == {"r1"}

Slot_runtime == <<"r", "u", "n", "t", "i", "m", "e">>
Slot_tracker == <<"t", "r", "a", "c", "k", "e", "r">>
Slot_scm == <<"s", "c", "m">>
Slot_notifier == <<"n", "o", "t", "i", "f", "i", "e", "r">>

Name_tmux == <<"t", "m", "u", "x">>
Name_github == <<"g", "i", "t", "h", "u", "b">>
Name_gitlab == <<"g", "i", "t", "l", "a", "b">>
Name_slack == <<"s", "l", "a", "c", "k">>

Manifest(slot, name) == [slot |-> slot, name |-> name]

\* Entries of the table, in source order (tracker github, scm github,
\* notifier slack; runtime tmux is put last); a package's manifest names the
\* slot and name of its table entry
BUILTIN_PLUGINS ==
    <<Manifest(Slot_tracker, Name_github), Manifest(Slot_scm, Name_github),
      Manifest(Slot_notifier, Name_slack), Manifest(Slot_runtime, Name_tmux)>>

Builtins == SubSeq(BUILTIN_PLUGINS, 1, NumBuiltins)

\* What the running environment does for a built-in package: the import
\* fails, the module lacks manifest/create, create throws, or all is well
EnvOutcomes == {"absent", "malformed", "createThrows", "ok"}

\* Modules passed to register directly: the GitLab tracker (create throws
\* without a token) and a replacement for the built-in GitHub tracker
ExplicitModules ==
    {[manifest |-> Manifest(Slot_tracker, Name_gitlab), createOk |-> TRUE],
     [manifest |-> Manifest(Slot_tracker, Name_gitlab), createOk |-> FALSE],
     [manifest |-> Manifest(Slot_tracker, Name_github), createOk |-> TRUE]}

makeKeyNameOnly(slot, name) == name

\* `${slot}:${name}`
makeKey(slot, name) == slot \o <<":">> \o name

\* get returns null for a key without entry; instances are numbered from 1
Null == 0

\* Index of the entry of Map m with this key, 0 if there is none
IndexOf(m, key) ==
    IF \E k \in DOMAIN m : m[k].key = key
    THEN CHOOSE k \in DOMAIN m : m[k].key = key
    ELSE 0

\* The (slot, name) pairs that have an entry in Map m
Bound(m) == {m[k].value.manifest : k \in DOMAIN m}

mapSetAppend(m, key, value) == Append(m, [key |-> key, value |-> value])

\* Map.prototype.set: replaces the value of an existing key in place,
\* appends a new key
mapSet(m, key, value) ==
    LET k == IndexOf(m, key)
    IN  IF k = 0 THEN Append(m, [key |-> key, value |-> value])
        ELSE [m EXCEPT ![k] = [key |-> key, value |-> value]]

\* register, once plugin.create(config) has returned instance
register(m, manifest, instance) ==
    mapSet(m, makeKey(manifest.slot, manifest.name),
           [manifest |-> manifest, instance |-> instance])

getFirstEntry(m, slot, name) == IF Len(m) > 0 THEN m[1].value.instance ELSE Null

\* get(slot, name)
get(m, slot, name) ==
    LET k == IndexOf(m, makeKey(slot, name))
    IN  IF k = 0 THEN Null ELSE m[k].value.instance

\* key.startsWith(prefix)
startsWith(key, prefix) ==
    /\ Len(key) >= Len(prefix)
    /\ SubSeq(key, 1, Len(prefix)) = prefix

\* The loop of list over the first k entries of the Map
RECURSIVE listUpTo(_, _, _)
listUpTo(m, slot, k) ==
    IF k = 0 THEN <<>>
    ELSE IF startsWith(m[k].key, slot \o <<":">>)
         THEN Append(listUpTo(m, slot, k - 1), m[k].value.manifest)
         ELSE listUpTo(m, slot, k - 1)

\* list(slot): the manifests of the entries whose key starts with `${slot}:`,
\* in the Map's insertion order
list(m, slot) == listUpTo(m, slot, Len(m))

LoadStepNoCatch(e) ==
    IF e = "ok" THEN "register"
    ELSE IF e = "malformed" THEN "skip"
    ELSE "throw"

\* One iteration of the loop of loadBuiltins: a failing import and a throwing
\* create are caught and skipped, a module without manifest/create is skipped
LoadStep(e) == IF e = "ok" THEN "register" ELSE "skip"

NoReg == [reg |-> "none", manifest |-> Manifest(<<>>, <<>>), instance |-> Null,
          outcome |-> "none"]

NoSpawn == [project |-> "none", reg |-> "none", outcome |-> "none", missing |-> {}]

NoLookup == [kind |-> "none", reg |-> "none", slot |-> <<>>, name |-> <<>>,
             instance |-> Null, manifests |-> <<>>]

InitRegistry ==
    /\ RequestParked
    /\ WebhookParked
    /\ TrackerParked
    /\ ShellParked
    /\ UrlParked
    /\ WriteParked
    /\ envOk = [r \in Registries |-> {}]
    /\ plugins = [r \in Registries |-> <<>>]
    /\ created = 0
    /\ loadCall = [r \in Registries |-> "none"]
    /\ loadIdx = [r \in Registries |-> 0]
    /\ loadEnd = [r \in Registries |-> "none"]
    /\ loadOk = [r \in Registries |-> {}]
    /\ loadResolved = [r \in Registries |-> {}]
    /\ otherBound = [r \in Registries |-> {}]
    /\ everBound = [r \in Registries |-> {}]
    /\ lastReg = NoReg
    /\ sessions = {}
    /\ lastSpawn = NoSpawn
    /\ lastLookup = NoLookup

RegisterGlobal(r, mod) ==
    /\ IF mod.createOk
       THEN /\ created < MaxInstances
            /\ created' = created + 1
            /\ plugins' = [q \in DOMAIN plugins |->
                                register(plugins[q], mod.manifest, created + 1)]
            /\ otherBound' = [otherBound EXCEPT ![r] = @ \cup {mod.manifest}]
            /\ everBound' = [q \in DOMAIN everBound |-> everBound[q] \cup {mod.manifest}]
            /\ lastReg' = [reg |-> r, manifest |-> mod.manifest,
                           instance |-> created + 1, outcome |-> "returned"]
            /\ lastLookup' = NoLookup
       ELSE /\ lastReg' = [reg |-> r, manifest |-> mod.manifest,
                           instance |-> Null, outcome |-> "thrown"]
            /\ UNCHANGED <<created, plugins, otherBound, everBound, lastLookup>>
    /\ UNCHANGED <<envOk, loadCall, loadIdx, loadEnd, loadOk, loadResolved, sessions,
                   lastSpawn>>
    /\ UNCHANGED <<reqVars, whVars, tkVars, shVars, urlVars, wrVars>>

\* registry.register(mod, config) called directly
Register(r, mod) ==
    /\ IF mod.createOk
       THEN /\ created < MaxInstances
            /\ created' = created + 1
            /\ plugins' = [plugins EXCEPT ![r] = register(@, mod.manifest, created + 1)]
            /\ otherBound' = [otherBound EXCEPT ![r] = @ \cup {mod.manifest}]
            /\ everBound' = [everBound EXCEPT ![r] = @ \cup {mod.manifest}]
            /\ lastReg' = [reg |-> r, manifest |-> mod.manifest,
                           instance |-> created + 1, outcome |-> "returned"]
            /\ lastLookup' = NoLookup
       ELSE \* plugin.create(config) throws: the Map is not touched
            /\ lastReg' = [reg |-> r, manifest |-> mod.manifest,
                           instance |-> Null, outcome |-> "thrown"]
            /\ UNCHANGED <<created, plugins, otherBound, everBound, lastLookup>>
    /\ UNCHANGED <<envOk, loadCall, loadIdx, loadEnd, loadOk, loadResolved, sessions,
                   lastSpawn>>
    /\ UNCHANGED <<reqVars, whVars, tkVars, shVars, urlVars, wrVars>>

\* The loop of loadBuiltins starts: the first import is awaited
StartLoad(r, call) ==
    /\ loadCall[r] = "none"
    /\ loadCall' = [loadCall EXCEPT ![r] = call]
    /\ loadIdx' = [loadIdx EXCEPT ![r] = 1]
    /\ loadEnd' = [loadEnd EXCEPT ![r] = "none"]
    /\ loadOk' = [loadOk EXCEPT ![r] = {}]
    /\ envOk' = [envOk EXCEPT ![r] = {}]
    /\ loadResolved' = [loadResolved EXCEPT ![r] = {}]
    /\ otherBound' = [otherBound EXCEPT ![r] = Bound(plugins[r])]
    /\ UNCHANGED <<plugins, created, everBound, lastReg, sessions, lastSpawn,
                   lastLookup>>
    /\ UNCHANGED <<reqVars, whVars, tkVars, shVars, urlVars, wrVars>>

\* registry.loadBuiltins()
LoadBuiltins(r) == StartLoad(r, "loadBuiltins")

\* registry.loadFromConfig(config): await this.loadBuiltins(config), nothing
\* else (plugins named by the config are not loaded)
LoadFromConfig(r) == StartLoad(r, "loadFromConfig")

\* await import(builtin.pkg) settles and the rest of the iteration runs; e is
\* what the environment does for this package
ImportSettles(r, e) ==
    /\ loadCall[r] # "none"
    /\ LET i    == loadIdx[r]
           step == LoadStep(e)
           last == (i = Len(Builtins))
       IN  /\ envOk' = [envOk EXCEPT ![r] = IF e = "ok" THEN @ \cup {i} ELSE @]
           /\ IF step = "register"
              THEN /\ created < MaxInstances
                   /\ created' = created + 1
                   /\ plugins' = [plugins EXCEPT ![r] =
                            register(@, Builtins[i], created + 1)]
                   /\ loadOk' = [loadOk EXCEPT ![r] = @ \cup {i}]
                   /\ everBound' = [everBound EXCEPT ![r] = @ \cup {Builtins[i]}]
                   /\ lastReg' = [reg |-> r, manifest |-> Builtins[i],
                                  instance |-> created + 1, outcome |-> "returned"]
                   /\ lastLookup' = NoLookup
              ELSE /\ lastReg' = IF e = "createThrows"
                                 THEN [reg |-> r, manifest |-> Builtins[i],
                                       instance |-> Null, outcome |-> "thrown"]
                                 ELSE lastReg
                   /\ UNCHANGED <<created, plugins, loadOk, everBound, lastLookup>>
           /\ IF step = "throw"
              THEN /\ loadCall' = [loadCall EXCEPT ![r] = "none"]
                   /\ loadIdx' = [loadIdx EXCEPT ![r] = 0]
                   /\ loadEnd' = [loadEnd EXCEPT ![r] = "thrown"]
              ELSE IF last
              THEN /\ loadCall' = [loadCall EXCEPT ![r] = "none"]
                   /\ loadIdx' = [loadIdx EXCEPT ![r] = 0]
                   /\ loadEnd' = [loadEnd EXCEPT ![r] = "done"]
              ELSE /\ loadIdx' = [loadIdx EXCEPT ![r] = i + 1]
                   /\ UNCHANGED <<loadCall, loadEnd>>
           /\ loadResolved' = [loadResolved EXCEPT ![r] =
                    IF step # "throw" /\ last
                    THEN {j \in DOMAIN Builtins :
                            get(plugins'[r], Builtins[j].slot, Builtins[j].name) # Null}
                    ELSE @]
    /\ UNCHANGED <<otherBound, sessions, lastSpawn>>
    /\ UNCHANGED <<reqVars, whVars, tkVars, shVars, urlVars, wrVars>>

(***************************************************************************)
(* Session Manager: spawn validates that the project's plugin              *)
(* configuration is resolvable (spec section 4.1, 4.3)                     *)
(***************************************************************************)
Projects ==
    {[id |-> "app-github",
      requires |-> {Manifest(Slot_tracker, Name_github), Manifest(Slot_scm, Name_github)}],
     [id |-> "app-gitlab",
      requires |-> {Manifest(Slot_tracker, Name_gitlab)}]}

\* The pairs of the project that have no entry in the Map
Missing(m, proj) ==
    {q \in proj.requires : ~\E k \in DOMAIN m : m[k].value.manifest = q}

\* spawn(project, ...): ConfigurationError when a required pair resolves to
\* nothing, before any resource or session is created
Spawn(r, proj) ==
    /\ LET unresolved == {q \in proj.requires : get(plugins[r], q.slot, q.name) = Null}
       IN  IF unresolved = {}
           THEN /\ sessions' = sessions \cup {[project |-> proj.id, reg |-> r]}
                /\ lastSpawn' = [project |-> proj.id, reg |-> r, outcome |-> "spawned",
                                 missing |-> Missing(plugins[r], proj)]
           ELSE /\ lastSpawn' = [project |-> proj.id, reg |-> r,
                                 outcome |-> "ConfigurationError",
                                 missing |-> Missing(plugins[r], proj)]
                /\ UNCHANGED sessions
    /\ UNCHANGED <<envOk, plugins, created, loadCall, loadIdx, loadEnd, loadOk,
                   loadResolved, otherBound, everBound, lastReg, lastLookup>>
    /\ UNCHANGED <<reqVars, whVars, tkVars, shVars, urlVars, wrVars>>

NextRegistry ==
    \/ \E r \in Registries, mod \in ExplicitModules : Register(r, mod)
    \/ \E r \in Registries : LoadBuiltins(r)
    \/ \E r \in Registries : LoadFromConfig(r)
    \/ \E r \in Registries, e \in EnvOutcomes : ImportSettles(r, e)
    \/ \E r \in Registries, proj \in Projects : Spawn(r, proj)

SpecRegistry == InitRegistry /\ [][NextRegistry]_vars

(***************************************************************************)
(* Lookups, and two registries made by two createPluginRegistry() calls    *)
(***************************************************************************)
IndependentRegistries == {"r1", "r2"}

\* The (slot, name) pairs and the slots that callers look up
LookupPairs ==
    {Manifest(Slot_tracker, Name_github), Manifest(Slot_tracker, Name_gitlab)}

LookupSlots == {Slot_tracker}

GetLazy(r, slot, name) ==
    /\ created < MaxInstances
    /\ LET found == get(plugins[r], slot, name)
       IN  IF found # Null
           THEN /\ lastLookup' = [kind |-> "get", reg |-> r, slot |-> slot,
                                   name |-> name, instance |-> found,
                                   manifests |-> <<>>]
                /\ UNCHANGED <<plugins, created>>
           ELSE /\ created' = created + 1
                /\ plugins' = [plugins EXCEPT ![r] =
                        register(@, Manifest(slot, name), created + 1)]
                /\ lastLookup' = [kind |-> "get", reg |-> r, slot |-> slot,
                                   name |-> name, instance |-> created + 1,
                                   manifests |-> <<>>]
    /\ UNCHANGED <<envOk, loadCall, loadIdx, loadEnd, loadOk, loadResolved,
                   otherBound, everBound, lastReg, sessions, lastSpawn>>
    /\ UNCHANGED <<reqVars, whVars, tkVars, shVars, urlVars, wrVars>>

\* registry.get(slot, name) called: only the Map's get is applied
Get(r, slot, name) ==
    /\ lastLookup' = [kind |-> "get", reg |-> r, slot |-> slot, name |-> name,
                      instance |-> get(plugins[r], slot, name), manifests |-> <<>>]
    /\ UNCHANGED <<envOk, plugins, created, loadCall, loadIdx, loadEnd, loadOk,
                   loadResolved, otherBound, everBound, lastReg, sessions, lastSpawn>>
    /\ UNCHANGED <<reqVars, whVars, tkVars, shVars, urlVars, wrVars>>

\* registry.list(slot) called: the Map is iterated, nothing is written
List(r, slot) ==
    /\ lastLookup' = [kind |-> "list", reg |-> r, slot |-> slot, name |-> <<>>,
                      instance |-> Null, manifests |-> list(plugins[r], slot)]
    /\ UNCHANGED <<envOk, plugins, created, loadCall, loadIdx, loadEnd, loadOk,
                   loadResolved, otherBound, everBound, lastReg, sessions, lastSpawn>>
    /\ UNCHANGED <<reqVars, whVars, tkVars, shVars, urlVars, wrVars>>

\* Two createPluginRegistry() calls: each closure has its own empty Map
InitRegistries ==
    /\ RequestParked
    /\ WebhookParked
    /\ TrackerParked
    /\ ShellParked
    /\ UrlParked
    /\ WriteParked
    /\ envOk = [r \in IndependentRegistries |-> {}]
    /\ plugins = [r \in IndependentRegistries |-> <<>>]
    /\ created = 0
    /\ loadCall = [r \in IndependentRegistries |-> "none"]
    /\ loadIdx = [r \in IndependentRegistries |-> 0]
    /\ loadEnd = [r \in IndependentRegistries |-> "none"]
    /\ loadOk = [r \in IndependentRegistries |-> {}]
    /\ loadResolved = [r \in IndependentRegistries |-> {}]
    /\ otherBound = [r \in IndependentRegistries |-> {}]
    /\ everBound = [r \in IndependentRegistries |-> {}]
    /\ lastReg = NoReg
    /\ sessions = {}
    /\ lastSpawn = NoSpawn
    /\ lastLookup = NoLookup

NextRegistries ==
    \/ \E r \in IndependentRegistries, mod \in ExplicitModules : Register(r, mod)
    \/ \E r \in IndependentRegistries, q \in LookupPairs : Get(r, q.slot, q.name)
    \/ \E r \in IndependentRegistries, slot \in LookupSlots : List(r, slot)
    \/ \E r \in Registries : LoadBuiltins(r)
    \/ \E r \in Registries, e \in {"absent", "ok"} : ImportSettles(r, e)

SpecRegistries == InitRegistries /\ [][NextRegistries]_vars

(***************************************************************************)
(* Properties of the plugin registry                                      *)
(***************************************************************************)
Slots == {Slot_runtime, Slot_tracker, Slot_scm, Slot_notifier}

Names == {Name_tmux, Name_github, Name_gitlab, Name_slack}

AllPairs == {Manifest(slot, name) : slot \in Slots, name \in Names}

\* The entries of Map m that belong to the pair q
EntriesOf(m, q) == {k \in DOMAIN m : m[k].value.manifest = q}

\* C4: after register returns, get of the module's (slot, name) returns the
\* instance that call constructed; every (slot, name) has at most one entry
\* (re-registering replaces); get of a pair never registered returns null.
C4_RegisterBindsOne ==
    /\ lastReg.outcome = "returned" =>
            get(plugins[lastReg.reg], lastReg.manifest.slot, lastReg.manifest.name)
                = lastReg.instance
    /\ \A r \in Registries, q \in AllPairs :
            /\ Cardinality(EntriesOf(plugins[r], q)) <= 1
            /\ q \notin everBound[r] => get(plugins[r], q.slot, q.name) = Null

C4_Witness ==
    /\ lastReg.outcome = "returned"
    /\ lastReg.manifest = Manifest(Slot_tracker, Name_github)
    /\ lastReg.instance = 3
    /\ Len(plugins["r1"]) = 2
    /\ get(plugins["r1"], Slot_tracker, Name_github) = 3
    /\ get(plugins["r1"], Slot_scm, Name_github) = 2
    /\ get(plugins["r1"], Slot_tracker, Name_gitlab) = Null

ProjectById(id) == CHOOSE proj \in Projects : proj.id = id

\* C5: a spawn for a project whose configuration requires a (slot, name)
\* pair that resolves to nothing ends in a ConfigurationError and spawns no
\* session; every session spawned has all its required pairs bound.
C5_UnresolvedIsFatal ==
    /\ \A s \in sessions : Missing(plugins[s.reg], ProjectById(s.project)) = {}
    /\ lastSpawn.outcome = "spawned" => lastSpawn.missing = {}
    /\ (lastSpawn.outcome # "none" /\ lastSpawn.missing # {}) =>
            lastSpawn.outcome = "ConfigurationError"

C5_Witness ==
    /\ loadEnd["r1"] = "done"
    /\ loadOk["r1"] = {1, 2}
    /\ lastSpawn.project = "app-gitlab"
    /\ lastSpawn.outcome = "ConfigurationError"
    /\ lastSpawn.missing = {Manifest(Slot_tracker, Name_gitlab)}
    /\ sessions = {}

\* C10 as stated: loadBuiltins never throws and, when it has ended, exactly
\* the built-ins that imported and constructed successfully are resolvable
\* through get.
C10_Original ==
    \A r \in Registries :
        /\ loadEnd[r] # "thrown"
        /\ loadEnd[r] = "done" => loadResolved[r] = envOk[r]

\* C10 (amended): loadBuiltins never throws, a failing built-in does not keep
\* the others from being registered, and when the load has ended every
\* built-in that imported and constructed successfully is resolvable through
\* get, while a built-in that failed is resolvable only if its (slot, name)
\* was bound before the load or by a direct register call.
C10_LoadBuiltinsTolerant ==
    \A r \in Registries :
        /\ loadEnd[r] # "thrown"
        /\ loadCall[r] # "none" => loadOk[r] = envOk[r]
        /\ loadEnd[r] = "done" =>
                /\ loadOk[r] = envOk[r]
                /\ envOk[r] \subseteq loadResolved[r]
                /\ \A i \in envOk[r] :
                        get(plugins[r], Builtins[i].slot, Builtins[i].name) # Null
                /\ \A i \in loadResolved[r] \ envOk[r] : Builtins[i] \in otherBound[r]

C10_Witness ==
    /\ loadEnd["r1"] = "done"
    /\ envOk["r1"] = {2}
    /\ loadResolved["r1"] = {2}
    /\ get(plugins["r1"], Slot_scm, Name_github) # Null
    /\ get(plugins["r1"], Slot_tracker, Name_github) = Null

(***************************************************************************)
(* Properties of lookups and of independent registries                    *)
(***************************************************************************)
\* C11: get(slot, name) and list(slot) are pure lookups: a step that is a
\* lookup leaves every registry's bindings unchanged and constructs no plugin
\* instance, and as long as no register intervenes the same call returns the
\* result that was returned before.
C11_LookupsArePure ==
    /\ [](/\ lastLookup.kind = "get" =>
                get(plugins[lastLookup.reg], lastLookup.slot, lastLookup.name)
                    = lastLookup.instance
          /\ lastLookup.kind = "list" =>
                list(plugins[lastLookup.reg], lastLookup.slot) = lastLookup.manifests)
    /\ [][(lastLookup' # lastLookup /\ lastLookup'.kind # "none") =>
                (plugins' = plugins /\ created' = created)]_vars

C11_Witness ==
    /\ lastLookup.kind = "list"
    /\ lastLookup.reg = "r1"
    /\ lastLookup.slot = Slot_tracker
    /\ lastLookup.manifests =
            <<Manifest(Slot_tracker, Name_gitlab), Manifest(Slot_tracker, Name_github)>>
    /\ Len(plugins["r1"]) = 3
    /\ created = 3

\* C17: the plugin map is not an ambient global: a step in which register
\* binds a pair on one registry changes neither the Map of any other registry
\* nor what get or list return on it.
C17_RegistriesIndependent ==
    [][\A r \in IndependentRegistries :
          (lastReg' # lastReg /\ lastReg'.reg = r) =>
              \A o \in IndependentRegistries \ {r} :
                  /\ plugins'[o] = plugins[o]
                  /\ \A q \in AllPairs :
                        get(plugins'[o], q.slot, q.name) = get(plugins[o], q.slot, q.name)
                  /\ \A slot \in Slots :
                        list(plugins'[o], slot) = list(plugins[o], slot)]_vars

C17_Witness ==
    /\ lastReg.outcome = "returned"
    /\ lastReg.reg = "r2"
    /\ lastReg.manifest = Manifest(Slot_tracker, Name_github)
    /\ get(plugins["r2"], Slot_tracker, Name_github) = 2
    /\ get(plugins["r1"], Slot_tracker, Name_github) = 1
    /\ list(plugins["r1"], Slot_tracker) = <<Manifest(Slot_tracker, Name_github)>>
    /\ list(plugins["r2"], Slot_tracker) = <<Manifest(Slot_tracker, Name_github)>>

(***************************************************************************)
(* Properties of the event mapping of handleWebhook                        *)
(***************************************************************************)
\* The request passes validation: no secret is configured, or the token
\* header equals the secret
PassesValidation == ~Truthy(whSecret) \/ TokenHeader(whHeaders) = whSecret

\* The shape the event header selects
TypeFor(event) ==
    IF event = "Issue Hook" THEN "issue"
    ELSE IF event = "Merge Request Hook" THEN "merge_request"
    ELSE "unknown"

\* The event is one of the three normalized shapes, well formed for its type
NormalizedShape(ev) ==
    \/ ev.type \in {"issue", "merge_request"} /\ ev.payload = "none"
            /\ ev.action # "none" /\ ev.object # "none" /\ ev.project # "none"
    \/ ev.type = "unknown" /\ ev.payload # "none"
            /\ ev.action = "none" /\ ev.object = "none" /\ ev.project = "none"

\* C12 as stated: every request that passes validation returns one of the
\* three normalized shapes, chosen only by the event header; no event is
\* produced for a request whose token check failed.
C12_Original ==
    whPc # "ready" =>
        /\ PassesValidation =>
                /\ whPc = "returned"
                /\ NormalizedShape(whEvent)
                /\ whEvent.type = TypeFor(EventHeader(whHeaders))
        /\ ~PassesValidation => (whPc = "thrown" /\ whEvent = NoEvent)

\* C12 (amended): every request that passes validation and whose payload is
\* not null/undefined returns one of the three normalized shapes, chosen only
\* by the event header; with a null/undefined payload an "Issue Hook" or
\* "Merge Request Hook" request throws a TypeError and yields no event, any
\* other request returns type unknown; no event is produced for a request
\* whose token check failed.
C12_MappingByEventHeader ==
    whPc # "ready" =>
        /\ (PassesValidation /\ whPayload.defined) =>
                /\ whPc = "returned"
                /\ NormalizedShape(whEvent)
                /\ whEvent.type = TypeFor(EventHeader(whHeaders))
        /\ (PassesValidation /\ ~whPayload.defined) =>
                IF TypeFor(EventHeader(whHeaders)) = "unknown"
                THEN whPc = "returned" /\ NormalizedShape(whEvent)
                        /\ whEvent.type = "unknown"
                ELSE whPc = "thrown" /\ whError = "TypeError" /\ whEvent = NoEvent
        /\ ~PassesValidation =>
                (whPc = "thrown" /\ whError = "Invalid webhook token"
                    /\ whEvent = NoEvent)

C12_Witness ==
    /\ whPc = "returned"
    /\ Truthy(whSecret)
    /\ whHeaders.evLower = NoEventHeader
    /\ whHeaders.evUpper = NoEventHeader
    /\ whPayload.defined
    /\ whEvent.type = "unknown"
    /\ whEvent.payload = "payload"

\* C13: with a secret configured, validation runs the same operations for
\* every request: the header is normalized, header and secret are reduced to
\* digests of one fixed length, and exactly one constant-time comparison of
\* the digests decides, with no early return before it.
C13_SameOperations ==
    (Truthy(whSecret) /\ whPc # "ready") =>
        /\ whOps = <<"normalize", "sha256", "sha256", "timingSafeEqual">>
        /\ Len(Sha256(Coalesce(TokenHeader(whHeaders), <<>>))) = Len(Sha256(whSecret))

\* C14: an "Issue Hook" or "Merge Request Hook" request that passes
\* validation and whose payload has no object_attributes is rejected with a
\* PermanentExternalError and yields no issue or merge_request event.
C14_MalformedRejected ==
    (/\ whPc # "ready"
     /\ PassesValidation
     /\ TypeFor(EventHeader(whHeaders)) # "unknown"
     /\ ~whPayload.hasAttrs) =>
        /\ whPc = "thrown"
        /\ whError = "PermanentExternalError"
        /\ whEvent = NoEvent

ShellAlphabet == {"quote", "space", "dollar", "backtick", "backslash", "a"}

RECURSIVE ShellStringsUpTo(_)
ShellStringsUpTo(n) ==
    IF n = 0 THEN {<<>>}
    ELSE LET shorter == ShellStringsUpTo(n - 1)
         IN  shorter \cup {Append(t, c) : t \in shorter, c \in ShellAlphabet}

ShellArgs == ShellStringsUpTo(MaxArgLen)

\* arg.replace with the global pattern for a single quote: every single
\* quote becomes the four characters quote, backslash, quote, quote
RECURSIVE replaceQuotes(_)
replaceQuotes(arg) ==
    IF arg = <<>> THEN <<>>
    ELSE (IF Head(arg) = "quote" THEN <<"quote", "backslash", "quote", "quote">> ELSE <<Head(arg)>>)
            \o replaceQuotes(Tail(arg))

shellEscapeUnescaped(arg) == <<"quote">> \o arg \o <<"quote">>

\* a single quote + the replaced argument + a single quote
shellEscape(arg) == <<"quote">> \o replaceQuotes(arg) \o <<"quote">>

InitShell ==
    /\ RequestParked
    /\ WebhookParked
    /\ RegistryParked
    /\ TrackerParked
    /\ UrlParked
    /\ WriteParked
    /\ shArg \in ShellArgs
    /\ shPc = "ready"
    /\ shEscaped = <<>>

\* shellEscape(shArg) is called
ShellEscape ==
    /\ shPc = "ready"
    /\ shPc' = "escaped"
    /\ shEscaped' = shellEscape(shArg)
    /\ UNCHANGED shArg
    /\ UNCHANGED <<reqVars, whVars, regVars, tkVars, urlVars, wrVars>>

NextShell == ShellEscape

SpecShell == InitShell /\ [][NextShell]_vars

(***************************************************************************)
(* Properties of shellEscape                                               *)
(***************************************************************************)
\* The words a POSIX shell reads from the text t (sh: 2.2 Quoting, 2.3 Token
\* Recognition): inside single quotes every character is literal, outside
\* them a backslash makes the next character literal, a space ends the word,
\* and a dollar sign or a backtick starts an expansion (marked "<expansion>"); has says
\* that a word has been started, cur is the word so far
RECURSIVE PosixLex(_, _, _, _, _, _)
PosixLex(t, i, mode, has, cur, words) ==
    IF i > Len(t)
    THEN IF mode = "single" THEN <<<<"<unterminated>">>>>
         ELSE IF has THEN Append(words, cur) ELSE words
    ELSE IF mode = "single"
    THEN IF t[i] = "quote"
         THEN PosixLex(t, i + 1, "plain", TRUE, cur, words)
         ELSE PosixLex(t, i + 1, "single", TRUE, Append(cur, t[i]), words)
    ELSE IF t[i] = "quote" THEN PosixLex(t, i + 1, "single", TRUE, cur, words)
    ELSE IF t[i] = "backslash"
    THEN IF i = Len(t) THEN <<<<"<unterminated>">>>>
         ELSE PosixLex(t, i + 2, "plain", TRUE, Append(cur, t[i + 1]), words)
    ELSE IF t[i] = "space"
    THEN PosixLex(t, i + 1, "plain", FALSE, <<>>,
                  IF has THEN Append(words, cur) ELSE words)
    ELSE IF t[i] \in {"dollar", "backtick"}
    THEN PosixLex(t, i + 1, "plain", TRUE, Append(cur, "<expansion>"), words)
    ELSE PosixLex(t, i + 1, "plain", TRUE, Append(cur, t[i]), words)

PosixWords(t) == PosixLex(t, 1, "plain", FALSE, <<>>, <<>>)

\* C18: for every argument s, shellEscape(s) is read by a POSIX shell as
\* exactly one word, that word is s itself (also with single quotes, spaces,
\* dollar signs, backticks, backslashes in s, and for the empty s), and the text starts
\* and ends with a single quote.
C18_ShellEscapeRoundTrip ==
    shPc = "escaped" =>
        /\ PosixWords(shEscaped) = <<shArg>>
        /\ Len(shEscaped) >= 2
        /\ shEscaped[1] = "quote"
        /\ shEscaped[Len(shEscaped)] = "quote"

C18_Witness ==
    /\ shPc = "escaped"
    /\ shArg = <<"quote", "space", "dollar">>
    /\ shEscaped = <<"quote", "quote", "backslash", "quote", "quote", "space", "dollar", "quote">>

(***************************************************************************)
(* GitLab tracker (createGitLabTracker): creation and the reading calls    *)
(***************************************************************************)
\* Two revisions of the adapter are in the source tree
TkImpls == {"adapter", "part_003"}

\* cfg.token and process.env["GITLAB_TOKEN"]: unset, empty, set
TokenValues == {Undefined, <<>>, <<"a">>}

\* JSON null (no string: its character is outside every alphabet)
JsonNull == <<"null">>

UpperCase ==
    <<"A", "B", "C", "D", "E", "F", "G", "H", "I", "J", "K", "L", "M",
      "N", "O", "P", "Q", "R", "S", "T", "U", "V", "W", "X", "Y", "Z">>

LowerCase ==
    <<"a", "b", "c", "d", "e", "f", "g", "h", "i", "j", "k", "l", "m",
      "n", "o", "p", "q", "r", "s", "t", "u", "v", "w", "x", "y", "z">>

\* String.prototype.toLowerCase
toLowerCase(s) ==
    [k \in DOMAIN s |->
        IF \E j \in DOMAIN UpperCase : UpperCase[j] = s[k]
        THEN LowerCase[CHOOSE j \in DOMAIN UpperCase : UpperCase[j] = s[k]]
        ELSE s[k]]

\* String(v)
StringOf(v) ==
    IF v = Undefined THEN <<"u", "n", "d", "e", "f", "i", "n", "e", "d">>
    ELSE IF v = JsonNull THEN <<"n", "u", "l", "l">>
    ELSE v

\* a ?? b for a value that may be undefined or null
Nullish(a, b) == IF a = Undefined \/ a = JsonNull THEN b ELSE a

Closed == <<"c", "l", "o", "s", "e", "d">>

Opened == <<"o", "p", "e", "n", "e", "d">>

Reopened == <<"r", "e", "o", "p", "e", "n", "e", "d">>

\* Values of the state field of an issue in a response of the server
StateValues ==
    {Closed, <<"C", "l", "o", "s", "e", "d">>, <<"C", "L", "O", "S", "E", "D">>,
     Opened, Reopened, <<"O", "p", "e", "n", "e", "d">>, <<"c", "l", "o", "s", "e">>,
     <<>>, Undefined, JsonNull}

ListStates == {Closed, <<"C", "l", "o", "s", "e", "d">>, Opened, Undefined}

mapStateExact(state) ==
    LET s == Nullish(state, <<>>)
    IN  IF s = Closed THEN "closed" ELSE "open"

\* mapState(state)
mapState(state) ==
    LET s == toLowerCase(Nullish(state, <<>>))
    IN  IF s = Closed THEN "closed"
        ELSE IF s = Reopened \/ s = Opened THEN "open"
        ELSE "open"

\* What client.get / client.post gives the adapter: the request fails (the
\* client throws), the body is empty (undefined), or the parsed JSON
FailedResponse == [body |-> "error", items |-> <<>>]

EmptyResponse == [body |-> "empty", items |-> <<>>]

IssueResponses ==
    {FailedResponse, EmptyResponse}
        \cup {[body |-> "object", items |-> <<s>>] : s \in StateValues}

ListResponses ==
    {FailedResponse, EmptyResponse}
        \cup {[body |-> "array", items |-> <<>>]}
        \cup {[body |-> "array", items |-> <<s>>] : s \in ListStates}
        \cup {[body |-> "array", items |-> <<s, t>>] : s \in ListStates, t \in ListStates}

ReturnsIssues(states) ==
    [kind |-> "return", error |-> "none", states |-> states, completed |-> "none"]

ReturnsBoolean(b) ==
    [kind |-> "return", error |-> "none", states |-> <<>>,
     completed |-> IF b THEN "true" ELSE "false"]

ThrowsError(e) ==
    [kind |-> "throw", error |-> e, states |-> <<>>, completed |-> "none"]

\* Reading a property of an undefined body is a TypeError in adapter.ts;
\* part_003 tests data == null first and throws its own Error
EmptyBodyError(i) == IF i = "adapter" THEN "TypeError" ELSE "empty body"

\* getIssue: the state of the Issue returned
getIssue(i, resp) ==
    IF resp.body = "error" THEN ThrowsError("request failed")
    ELSE IF resp.body = "empty" THEN ThrowsError(EmptyBodyError(i))
    ELSE ReturnsIssues(<<mapState(resp.items[1])>>)

\* isCompleted: String(data.state).toLowerCase() === "closed"
isCompleted(i, resp) ==
    IF resp.body = "error" THEN ThrowsError("request failed")
    ELSE IF resp.body = "empty" THEN ThrowsError(EmptyBodyError(i))
    ELSE ReturnsBoolean(toLowerCase(StringOf(resp.items[1])) = Closed)

\* listIssues: (data ?? []).map(...)
listIssues(i, resp) ==
    IF resp.body = "error" THEN ThrowsError("request failed")
    ELSE ReturnsIssues([k \in DOMAIN resp.items |-> mapState(resp.items[k])])

\* createIssue: the Issue mapped from the response of the POST
createIssue(i, resp) ==
    IF resp.body = "error" THEN ThrowsError("request failed")
    ELSE IF resp.body = "empty" THEN ThrowsError(EmptyBodyError(i))
    ELSE ReturnsIssues(<<mapState(resp.items[1])>>)

createGitLabTrackerUnchecked(cfgToken, envToken) ==
    [kind |-> "return", error |-> "none", clients |-> 1]

\* createGitLabTracker(cfg): token = cfg.token ?? process.env["GITLAB_TOKEN"];
\* without a token it throws before new GitLabClient(...)
createGitLabTracker(cfgToken, envToken) ==
    LET token == Coalesce(cfgToken, envToken)
    IN  IF ~Truthy(token)
        THEN [kind |-> "throw", error |-> "GITLAB_TOKEN is required", clients |-> 0]
        ELSE [kind |-> "return", error |-> "none", clients |-> 1]

NoCall == [op |-> "none", resp |-> EmptyResponse, kind |-> "none", error |-> "none",
           states |-> <<>>, completed |-> "none"]

CallOf(op, resp, r) ==
    [op |-> op, resp |-> resp, kind |-> r.kind, error |-> r.error,
     states |-> r.states, completed |-> r.completed]

\* The updateIssue calls
Calls == {1, 2}

IdleCall ==
    [pc |-> "idle", labels |-> <<>>, payload |-> <<"undefined">>, before |-> {},
     after |-> {}, overlapped |-> FALSE, fetch |-> "none"]

InitTracker ==
    /\ RequestParked
    /\ WebhookParked
    /\ RegistryParked
    /\ ShellParked
    /\ UrlParked
    /\ WriteParked
    /\ tkImpl \in TkImpls
    /\ tkCfgToken \in TokenValues
    /\ tkEnvToken \in TokenValues
    /\ tkPc = "init"
    /\ tkClients = 0
    /\ tkRequests = 0
    /\ tkError = "none"
    /\ tkLast = NoCall
    /\ srvLabels = {}
    /\ calls = [c \in Calls |-> IdleCall]

\* The plugin's create(config): createGitLabTracker(config)
CreateTracker ==
    /\ tkPc = "init"
    /\ LET r == createGitLabTracker(tkCfgToken, tkEnvToken)
       IN  /\ tkPc' = IF r.kind = "return" THEN "created" ELSE "failed"
           /\ tkError' = r.error
           /\ tkClients' = tkClients + r.clients
    /\ UNCHANGED <<tkImpl, tkCfgToken, tkEnvToken, tkRequests, tkLast, srvLabels, calls>>
    /\ UNCHANGED <<reqVars, whVars, regVars, shVars, urlVars, wrVars>>

\* One reading call on the tracker; resp is what the client gives it
ReadCall(op, resp, r) ==
    /\ tkPc = "created"
    /\ tkRequests < MaxRequests
    /\ tkRequests' = tkRequests + 1
    /\ tkLast' = CallOf(op, resp, r)
    /\ UNCHANGED <<tkImpl, tkCfgToken, tkEnvToken, tkPc, tkClients, tkError, srvLabels,
                   calls>>
    /\ UNCHANGED <<reqVars, whVars, regVars, shVars, urlVars, wrVars>>

GetIssue(resp) == ReadCall("getIssue", resp, getIssue(tkImpl, resp))

IsCompleted(resp) == ReadCall("isCompleted", resp, isCompleted(tkImpl, resp))

ListIssues(resp) == ReadCall("listIssues", resp, listIssues(tkImpl, resp))

CreateIssue(resp) == ReadCall("createIssue", resp, createIssue(tkImpl, resp))

NextTracker ==
    \/ CreateTracker
    \/ \E resp \in IssueResponses : GetIssue(resp)
    \/ \E resp \in IssueResponses : IsCompleted(resp)
    \/ \E resp \in ListResponses : ListIssues(resp)
    \/ \E resp \in IssueResponses : CreateIssue(resp)

SpecTracker == InitTracker /\ [][NextTracker]_vars

(***************************************************************************)
(* Properties of the tracker's creation and reading calls                  *)
(***************************************************************************)
ClosedUpper == <<"C", "L", "O", "S", "E", "D">>

\* The value is a string that equals "closed" when case is ignored
ClosedIgnoringCase(v) ==
    /\ v # Undefined
    /\ v # JsonNull
    /\ Len(v) = Len(Closed)
    /\ \A k \in DOMAIN Closed : v[k] = Closed[k] \/ v[k] = ClosedUpper[k]

\* C15: every Issue returned by getIssue, listIssues or createIssue has state
\* open or closed, closed exactly when the state of the response equals
\* "closed" ignoring case (any other, null or missing state gives open); and
\* isCompleted returns true exactly when getIssue returns state closed for
\* the same response.
C15_StateNormalized ==
    tkLast.kind = "return" =>
        /\ tkLast.op \in {"getIssue", "createIssue", "listIssues"} =>
                /\ Len(tkLast.states) = Len(tkLast.resp.items)
                /\ \A k \in DOMAIN tkLast.states :
                        /\ tkLast.states[k] \in {"open", "closed"}
                        /\ tkLast.states[k] = "closed"
                                <=> ClosedIgnoringCase(tkLast.resp.items[k])
        /\ tkLast.op = "isCompleted" =>
                /\ tkLast.completed \in {"true", "false"}
                /\ tkLast.completed = "true"
                        <=> ClosedIgnoringCase(tkLast.resp.items[1])
                /\ tkLast.completed = "true"
                        <=> getIssue(tkImpl, tkLast.resp).states = <<"closed">>

C15_Witness ==
    /\ tkLast.op = "getIssue"
    /\ tkLast.kind = "return"
    /\ tkLast.resp.items = <<<<"C", "l", "o", "s", "e", "d">>>>
    /\ tkLast.states = <<"closed">>
    /\ isCompleted(tkImpl, tkLast.resp).completed = "true"

\* The core's conversion of an error thrown while a plugin is created
StartupTaxonomy(e) ==
    IF e = "GITLAB_TOKEN is required" THEN "ConfigurationError" ELSE "none"

\* C16: creating the GitLab tracker with no token in the plugin config and no
\* GITLAB_TOKEN in the environment fails with a ConfigurationError, no
\* GitLabClient has been constructed and no HTTP request has been made.
C16_MissingTokenIsFatal ==
    /\ (tkPc \notin {"init", "off"} /\ tkCfgToken = Undefined /\ tkEnvToken = Undefined) =>
            /\ tkPc = "failed"
            /\ StartupTaxonomy(tkError) = "ConfigurationError"
    /\ tkPc = "failed" => (tkClients = 0 /\ tkRequests = 0 /\ tkLast = NoCall)

C16_Witness ==
    /\ tkPc = "failed"
    /\ tkCfgToken = Undefined
    /\ tkEnvToken = Undefined
    /\ tkError = "GITLAB_TOKEN is required"
    /\ tkClients = 0

(***************************************************************************)
(* GitLab tracker: updateIssue and the labels of the issue on the server   *)
(***************************************************************************)
\* Labels are strings without a comma
Label_a == <<"a">>

Label_b == <<"b">>

Label_c == <<"c">>

\* The order in which the server lists the labels of an issue
LabelOrder == <<Label_a, Label_b, Label_c>>

\* update.labels of the calls
UpdateLabels == {<<>>, <<Label_a>>, <<Label_b>>, <<Label_a, Label_b>>}

\* The label sets of the issue before the calls
InitialLabels == {{}, {Label_c}, {Label_a, Label_c}}

Range(q) == {q[k] : k \in DOMAIN q}

\* existing.labels in the response of the GET: the labels of the issue
LabelsArray(set) == SelectSeq(LabelOrder, LAMBDA l : l \in set)

\* Array.from(new Set(array)): the first occurrence of every element is kept
RECURSIVE dedupe(_)
dedupe(q) ==
    IF q = <<>> THEN <<>>
    ELSE LET front == dedupe(SubSeq(q, 1, Len(q) - 1))
             last  == q[Len(q)]
         IN  IF last \in Range(front) THEN front ELSE Append(front, last)

\* labels.join(",")
RECURSIVE join(_)
join(q) ==
    IF q = <<>> THEN <<>>
    ELSE IF Len(q) = 1 THEN q[1]
    ELSE q[1] \o <<",">> \o join(Tail(q))

\* The server reads the labels field of a PUT as a comma-separated list;
\* cur is the label being read
RECURSIVE splitLabels(_, _)
splitLabels(str, cur) ==
    IF str = <<>> THEN (IF cur = <<>> THEN {} ELSE {cur})
    ELSE IF Head(str) = ","
         THEN (IF cur = <<>> THEN {} ELSE {cur}) \cup splitLabels(Tail(str), <<>>)
         ELSE splitLabels(Tail(str), Append(cur, Head(str)))

\* The fetch of the existing labels: the GET returns the issue, returns a
\* body without a labels array, or fails
FetchOutcomes == {"ok", "empty", "fails"}

\* payload["labels"] of adapter.ts: only the requested labels
PayloadRequested(labels) == join(labels)

\* payload["labels"] of part_003 after a fetch that did not throw: existing
\* and requested labels, merged
PayloadMerged(existing, labels) == join(dedupe(existing \o labels))

InFlight(call) == call.pc \in {"fetch", "put"}

\* A tracker created with a token; the issue has some labels
InitUpdate ==
    /\ RequestParked
    /\ WebhookParked
    /\ RegistryParked
    /\ ShellParked
    /\ UrlParked
    /\ WriteParked
    /\ tkImpl \in TkImpls
    /\ tkCfgToken = <<"a">>
    /\ tkEnvToken = Undefined
    /\ tkPc = "created"
    /\ tkClients = 1
    /\ tkRequests = 0
    /\ tkError = "none"
    /\ tkLast = NoCall
    /\ srvLabels \in InitialLabels
    /\ calls = [c \in Calls |-> IdleCall]

\* updateIssue(identifier, {labels}, project) is called: up to its first await
UpdateIssue(c, labels) ==
    /\ tkPc = "created"
    /\ calls[c].pc = "idle"
    /\ LET overlap == \E o \in Calls \ {c} : InFlight(calls[o])
           started == [calls[c] EXCEPT !.labels = labels, !.before = srvLabels,
                                       !.overlapped = overlap]
       IN  /\ calls' = [o \in Calls |->
                IF o # c
                THEN [calls[o] EXCEPT !.overlapped = @ \/ InFlight(calls[o])]
                ELSE IF labels = <<>>
                THEN \* nothing to update: no request is made
                     [started EXCEPT !.pc = "done", !.after = srvLabels]
                ELSE IF tkImpl = "adapter"
                THEN [started EXCEPT !.pc = "put",
                                     !.payload = PayloadRequested(labels)]
                ELSE [started EXCEPT !.pc = "fetch"]]
           /\ tkRequests' = IF labels = <<>> THEN tkRequests ELSE tkRequests + 1
    /\ UNCHANGED <<tkImpl, tkCfgToken, tkEnvToken, tkPc, tkClients, tkError, tkLast,
                   srvLabels>>
    /\ UNCHANGED <<reqVars, whVars, regVars, shVars, urlVars, wrVars>>

\* part_003: the GET of the current issue settles, the payload is built and
\* the PUT is sent
FetchSettles(c, outcome) ==
    /\ calls[c].pc = "fetch"
    /\ LET existing == IF outcome = "ok" THEN LabelsArray(srvLabels) ELSE <<>>
           payload  == IF outcome = "fails"
                       THEN PayloadRequested(calls[c].labels)
                       ELSE PayloadMerged(existing, calls[c].labels)
       IN  calls' = [calls EXCEPT ![c].pc = "put", ![c].payload = payload,
                                  ![c].fetch = outcome]
    /\ tkRequests' = tkRequests + 1
    /\ UNCHANGED <<tkImpl, tkCfgToken, tkEnvToken, tkPc, tkClients, tkError, tkLast,
                   srvLabels>>
    /\ UNCHANGED <<reqVars, whVars, regVars, shVars, urlVars, wrVars>>

\* The PUT settles: the server replaces the labels of the issue by the
\* labels of the payload and updateIssue returns, or the PUT fails and
\* updateIssue throws
PutSettles(c, ok) ==
    /\ calls[c].pc = "put"
    /\ IF ok
       THEN /\ srvLabels' = splitLabels(calls[c].payload, <<>>)
            /\ calls' = [calls EXCEPT ![c].pc = "done", ![c].after = srvLabels']
       ELSE /\ calls' = [calls EXCEPT ![c].pc = "failed"]
            /\ UNCHANGED srvLabels
    /\ UNCHANGED <<tkImpl, tkCfgToken, tkEnvToken, tkPc, tkClients, tkRequests, tkError,
                   tkLast>>
    /\ UNCHANGED <<reqVars, whVars, regVars, shVars, urlVars, wrVars>>

NextUpdate ==
    \/ \E c \in Calls, labels \in UpdateLabels : UpdateIssue(c, labels)
    \/ \E c \in Calls, outcome \in FetchOutcomes : FetchSettles(c, outcome)
    \/ \E c \in Calls, ok \in BOOLEAN : PutSettles(c, ok)

SpecUpdate == InitUpdate /\ [][NextUpdate]_vars

(***************************************************************************)
(* Properties of updateIssue                                               *)
(***************************************************************************)
\* C19: an updateIssue call with a non-empty label list that returns, and
\* that no other updateIssue call overlapped, is additive: every label the
\* issue had before the call and every requested label is on the issue after
\* the call, also when the fetch of the existing labels failed.
C19_LabelsAdditive ==
    \A c \in Calls :
        (calls[c].pc = "done" /\ calls[c].labels # <<>> /\ ~calls[c].overlapped) =>
            /\ calls[c].before \subseteq calls[c].after
            /\ Range(calls[c].labels) \subseteq calls[c].after

\* C20: when two updateIssue calls that add different labels, each of which
\* fetched the existing labels successfully, have both returned, the issue
\* carries the labels of both.
C20_NoLostUpdate ==
    (/\ \A c \in Calls : calls[c].pc = "done" /\ calls[c].fetch = "ok"
     /\ calls[1].labels # calls[2].labels) =>
        \A c \in Calls : Range(calls[c].labels) \subseteq srvLabels

(***************************************************************************)
(* Properties of the timers and the backoff of GitLabClient.request        *)
(***************************************************************************)
\* Attempt k of the call is over: a later attempt runs, the call sleeps
\* before the next attempt, or the call has returned or thrown
AttemptEnded(k) == k < attempt \/ pc \in {"sleep", "returned", "thrown"}

\* The step is the firing of timer k
Fires(k) == k \in DOMAIN timers /\ timers[k] = "pending" /\ timers'[k] = "fired"

\* C25: the timer of attempt k firing after attempt k has ended (during the
\* backoff sleep, during a later attempt, or after the call has ended)
\* aborts nothing that is in flight: the running attempt, its response, the
\* history of the call, its result and its error do not change, and no
\* other timer is touched.
C25_StaleTimerHarmless ==
    [][\A k \in DOMAIN timers :
          (Fires(k) /\ AttemptEnded(k)) =>
              /\ UNCHANGED <<pc, attempt, res, hist, result, error, delays>>
              /\ Len(timers') = Len(timers)
              /\ \A j \in DOMAIN timers : j # k => timers'[j] = timers[j]]_vars

\* The timer of attempt 1 fired after the response of attempt 1 had been
\* read completely; attempt 2 is still in flight
C25_Witness ==
    /\ attempt = 2
    /\ pc = "fetch"
    /\ timers = <<"fired", "pending">>
    /\ hist[1].kind = "response"
    /\ hist[1].read = "ok"

\* The lower bound of the delay after failed attempt k
DelayFloor(k) == 100 * 2 ^ (k - 1)

RECURSIVE SumSeq(_)
SumSeq(q) == IF q = <<>> THEN 0 ELSE Head(q) + SumSeq(Tail(q))

\* The sum of the upper bounds of the delays after attempts 1..n
RECURSIVE SumCeil(_)
SumCeil(n) == IF n <= 0 THEN 0 ELSE SumCeil(n - 1) + DelayFloor(n) + 99

\* C26: the delay slept after failed attempt k lies in
\* [100*2^(k-1), 100*2^(k-1)+99], the base delay doubles with every
\* attempt, a call sleeps after attempts 1..maxRetries-1 at most, and the
\* total time slept is at most the sum of the upper bounds for these attempts.
C26_BackoffBounds ==
    /\ \A k \in DOMAIN delays :
            /\ delays[k] >= DelayFloor(k)
            /\ delays[k] <= DelayFloor(k) + 99
    /\ \A k \in DOMAIN delays :
            (k + 1) \in DOMAIN delays =>
                (delays[k + 1] \div 100) = 2 * (delays[k] \div 100)
    /\ Len(delays) > 0 => Len(delays) <= maxRetries - 1
    /\ SumSeq(delays) <= SumCeil(maxRetries - 1)

C26_Witness ==
    /\ maxRetries = 3
    /\ delays = <<199, 200>>
    /\ pc = "returned"

(***************************************************************************)
(* defaultBaseUrl (the baseUrl of a GitLabClient)                          *)
(***************************************************************************)
\* A base URL is a sequence of pieces: a slash, the text api/v4, a blank,
\* and h: any other text that has no blank at either end and does not end
\* with a slash or with /api/v4 (https://gitlab.example.com, a path segment)
UrlAlphabet == {"/", "api/v4", " ", "h"}

RECURSIVE UrlStringsUpTo(_)
UrlStringsUpTo(n) ==
    IF n = 0 THEN {<<>>}
    ELSE LET shorter == UrlStringsUpTo(n - 1)
         IN  shorter \cup {Append(t, c) : t \in shorter, c \in UrlAlphabet}

\* opts.baseUrl: absent, or any string
BaseUrls == UrlStringsUpTo(MaxUrlLen) \cup {Undefined}

\* "/api/v4"
ApiSuffix == <<"/", "api/v4">>

\* "https://gitlab.com/api/v4"
GitLabComApi == <<"h">> \o ApiSuffix

\* String.prototype.endsWith
endsWith(s, suffix) ==
    /\ Len(s) >= Len(suffix)
    /\ SubSeq(s, Len(s) - Len(suffix) + 1, Len(s)) = suffix

\* String.prototype.trim
RECURSIVE trim(_)
trim(s) ==
    IF s = <<>> THEN s
    ELSE IF Head(s) = " " THEN trim(Tail(s))
    ELSE IF s[Len(s)] = " " THEN trim(SubSeq(s, 1, Len(s) - 1))
    ELSE s

\* s.replace(/\/+$/, "")
RECURSIVE stripTrailingSlashes(_)
stripTrailingSlashes(s) ==
    IF s # <<>> /\ s[Len(s)] = "/"
    THEN stripTrailingSlashes(SubSeq(s, 1, Len(s) - 1))
    ELSE s

\* !url
Falsy(url) == url = Undefined \/ url = <<>>

\* defaultBaseUrl of client.ts
defaultBaseUrlClient(url) ==
    IF Falsy(url) THEN GitLabComApi
    ELSE IF endsWith(url, ApiSuffix) THEN url
    ELSE IF endsWith(url, <<"/">>) THEN url \o <<"api/v4">>
    ELSE url \o ApiSuffix

\* defaultBaseUrl of gitlabClient.ts
defaultBaseUrlGitlabClient(url) ==
    IF Falsy(url) THEN GitLabComApi
    ELSE LET normalized == stripTrailingSlashes(trim(url))
         IN  IF endsWith(normalized, ApiSuffix) THEN normalized
             ELSE normalized \o ApiSuffix

defaultBaseUrl(i, url) ==
    IF i = "client" THEN defaultBaseUrlClient(url)
    ELSE defaultBaseUrlGitlabClient(url)

InitUrl ==
    /\ RequestParked
    /\ WebhookParked
    /\ RegistryParked
    /\ TrackerParked
    /\ ShellParked
    /\ WriteParked
    /\ urlImpl \in Impls
    /\ urlIn \in BaseUrls
    /\ urlPc = "ready"
    /\ urlOut = <<>>
    /\ urlAgain = <<>>

\* new GitLabClient({baseUrl: urlIn, ...}): this.baseUrl = defaultBaseUrl(...)
Construct ==
    /\ urlPc = "ready"
    /\ urlPc' = "normalized"
    /\ urlOut' = defaultBaseUrl(urlImpl, urlIn)
    /\ UNCHANGED <<urlImpl, urlIn, urlAgain>>
    /\ UNCHANGED <<reqVars, whVars, regVars, tkVars, shVars, wrVars>>

\* A second client is constructed with the baseUrl of the first
Reconstruct ==
    /\ urlPc = "normalized"
    /\ urlPc' = "renormalized"
    /\ urlAgain' = defaultBaseUrl(urlImpl, urlOut)
    /\ UNCHANGED <<urlImpl, urlIn, urlOut>>
    /\ UNCHANGED <<reqVars, whVars, regVars, tkVars, shVars, wrVars>>

NextUrl == Construct \/ Reconstruct

SpecUrl == InitUrl /\ [][NextUrl]_vars

(***************************************************************************)
(* Properties of defaultBaseUrl                                            *)
(***************************************************************************)
AllSlashes(s) == \A k \in DOMAIN s : s[k] = "/"

\* The address of a GitLab host, possibly with a path: no blank, no api/v4
PlainRoot(s) ==
    /\ s # <<>>
    /\ \A k \in DOMAIN s : s[k] \in {"h", "/"}
    /\ s[1] = "h"
    /\ s[Len(s)] = "h"

\* A configured base URL of the claim: the address of a host, with or
\* without the /api/v4 suffix, with or without trailing slashes
ConfiguredUrl(url) ==
    /\ url # Undefined
    /\ \E k \in 1 .. Len(url) :
            LET rest == SubSeq(url, k + 1, Len(url))
            IN  /\ PlainRoot(SubSeq(url, 1, k))
                /\ \/ AllSlashes(rest)
                   \/ /\ Len(rest) >= 2
                      /\ SubSeq(rest, 1, 2) = <<"/", "api/v4">>
                      /\ AllSlashes(SubSeq(rest, 3, Len(rest)))

\* The URL ends with /api/v4 and what precedes that suffix does not
EndsWithOneApi(u) ==
    /\ Len(u) >= 2
    /\ u[Len(u) - 1] = "/"
    /\ u[Len(u)] = "api/v4"
    /\ ~(Len(u) >= 4 /\ u[Len(u) - 3] = "/" /\ u[Len(u) - 2] = "api/v4")

\* C27: for every configured base URL, with or without the /api/v4 suffix
\* and with or without trailing slashes, the client's baseUrl ends with
\* exactly one /api/v4 and has no trailing slash; normalizing it again
\* leaves it unchanged; an absent base URL yields https://gitlab.com/api/v4.
C27_BaseUrlNormalized ==
    /\ (urlPc \in {"normalized", "renormalized"} /\ urlIn = Undefined) =>
            urlOut = <<"h", "/", "api/v4">>
    /\ (urlPc \in {"normalized", "renormalized"} /\ ConfiguredUrl(urlIn)) =>
            /\ EndsWithOneApi(urlOut)
            /\ urlOut[Len(urlOut)] # "/"
    /\ (urlPc = "renormalized" /\ (urlIn = Undefined \/ ConfiguredUrl(urlIn))) =>
            urlAgain = urlOut

(***************************************************************************)
(* Properties of loadFromConfig                                            *)
(***************************************************************************)
\* The step in which the loadFromConfig call on registry r completes
LoadFromConfigCompletes(r) ==
    /\ loadCall[r] = "loadFromConfig"
    /\ loadCall'[r] = "none"
    /\ loadEnd'[r] = "done"

\* C23: when loadFromConfig(config) completes for a configuration that
\* names the tracker plugin gitlab (every package that is imported is
\* installed and constructs), get("tracker", "gitlab") returns the GitLab
\* tracker instance, not null.
C23_ConfiguredTrackerResolves ==
    [][\A r \in Registries :
          (LoadFromConfigCompletes(r) /\ envOk'[r] = DOMAIN Builtins) =>
              get(plugins'[r], Slot_tracker, Name_gitlab) # Null]_vars

(***************************************************************************)
(* One writing call of the tracker (createIssue / updateIssue): the        *)
(* requests it makes through the client and what the server does with them *)
(***************************************************************************)
\* createIssue(input) and updateIssue(identifier, update): which fields the
\* argument carries (update.state, a non-empty labels array, an assignee, a
\* comment)
WriteCalls ==
    {[op |-> "createIssue", state |-> "none", labels |-> FALSE, assignee |-> a,
      comment |-> FALSE] : a \in BOOLEAN}
        \cup {[op |-> "updateIssue", state |-> s, labels |-> l, assignee |-> a,
               comment |-> c] :
                s \in {"none", "closed", "in_progress"}, l \in BOOLEAN,
                a \in BOOLEAN, c \in BOOLEAN}

StageOrderPutFirst == <<"getIssue", "getUsers", "put", "postNote">>

\* The requests of updateIssue in the order of its statements: the GET of the
\* existing labels (part_003), the GET of the assignee, the POST of the note,
\* the PUT of the payload
StageOrder == <<"getIssue", "getUsers", "postNote", "put">>

\* The requests of createIssue in the order of its statements
CreateOrder == <<"getUsers", "postIssue">>

Stages == {"getIssue", "getUsers", "postNote", "postIssue", "put"}

\* client.get / client.post / client.put: this.request(method, ...)
Method(stage) ==
    IF stage \in {"getIssue", "getUsers"} THEN "GET"
    ELSE IF stage = "put" THEN "PUT"
    ELSE "POST"

\* The resource the request addresses
PathOf(stage) ==
    IF stage = "getIssue" \/ stage = "put" THEN "issue"
    ELSE IF stage = "getUsers" THEN "users"
    ELSE IF stage = "postNote" THEN "notes"
    ELSE "issues"

\* The condition guarding the statement that makes the request
Needed(ad, call, keys, stage) ==
    IF stage = "getIssue" THEN ad = "part_003" /\ call.labels
    ELSE IF stage = "getUsers" THEN call.assignee
    ELSE IF stage = "postNote" THEN call.comment
    ELSE IF stage = "put" THEN keys # {}
    ELSE TRUE

\* The first request at position k or later of the order that is made; the
\* call returns when there is none
RECURSIVE StageFrom(_, _, _, _, _)
StageFrom(order, k, ad, call, keys) ==
    IF k > Len(order) THEN "returned"
    ELSE IF Needed(ad, call, keys, order[k]) THEN order[k]
    ELSE StageFrom(order, k + 1, ad, call, keys)

PositionOf(order, stage) == CHOOSE k \in DOMAIN order : order[k] = stage

OrderOf(call) == IF call.op = "createIssue" THEN CreateOrder ELSE StageOrder

\* The request made after this one
NextStage(ad, call, keys, stage) ==
    StageFrom(OrderOf(call), PositionOf(OrderOf(call), stage) + 1, ad, call, keys)

\* The keys of payload before the first await of updateIssue
InitialKeys(ad, call) ==
    IF call.op = "createIssue" THEN {}
    ELSE (IF call.state = "closed" THEN {"state_event"} ELSE {})
            \cup (IF call.labels /\ ad = "adapter" THEN {"labels"} ELSE {})

\* What the client sees of one attempt: 200 with a JSON body, 200 with an
\* empty body, a 5xx, a 4xx, its own timeout, a connection reset
Seen == {"ok", "empty", "5xx", "4xx", "timeout", "reset"}

\* What request does with the attempt
SeenOutcome(i, seen, a, m) ==
    IF seen = "ok" THEN AttemptOutcome(i, 200, "json", a, m)
    ELSE IF seen = "empty" THEN AttemptOutcome(i, 200, "empty", a, m)
    ELSE IF seen = "5xx" THEN AttemptOutcome(i, 500, "garbage", a, m)
    ELSE IF seen = "4xx" THEN AttemptOutcome(i, 404, "garbage", a, m)
    ELSE IF seen = "timeout" THEN CatchOutcome(i, AbortError, a, m)
    ELSE CatchOutcome(i, [name |-> "Error", code |-> "ECONNRESET", status |-> 0],
                      a, m)

\* Whether the server has carried out the request of the attempt: a GET
\* changes nothing, a 2xx tells it has, a 4xx that it has not; behind a 5xx,
\* a timeout or a reset it may or may not have
MayApply(method, seen) ==
    IF method = "GET" THEN {FALSE}
    ELSE IF seen \in {"ok", "empty"} THEN {TRUE}
    ELSE IF seen = "4xx" THEN {FALSE}
    ELSE BOOLEAN

InitWrite ==
    /\ RequestParked
    /\ WebhookParked
    /\ RegistryParked
    /\ TrackerParked
    /\ ShellParked
    /\ UrlParked
    /\ wrClient \in Impls
    /\ wrAdapter \in TkImpls
    /\ wrMaxRetries \in MaxRetriesValues
    /\ wrCall \in WriteCalls
    /\ wrPc = "idle"
    /\ wrAttempt = 0
    /\ wrKeys = {}
    /\ wrSent = <<>>
    /\ wrFailed = "none"
    /\ srvIssues = 0
    /\ srvNotes = 0
    /\ srvPuts = 0

\* The call is made: it runs up to its first request
WriteCall ==
    /\ wrPc = "idle"
    /\ LET keys == InitialKeys(wrAdapter, wrCall)
       IN  /\ wrKeys' = keys
           /\ wrPc' = StageFrom(OrderOf(wrCall), 1, wrAdapter, wrCall, keys)
           /\ wrAttempt' = IF wrPc' = "returned" THEN 0 ELSE 1
    /\ UNCHANGED <<wrClient, wrAdapter, wrMaxRetries, wrCall, wrSent, wrFailed,
                   srvIssues, srvNotes, srvPuts>>
    /\ UNCHANGED <<reqVars, whVars, regVars, tkVars, shVars, urlVars>>

\* One attempt of the request in flight: it is sent, the server carries it
\* out or not, the client sees the attempt's end and retries (after the
\* backoff sleep), returns or throws; on a return or a throw the call runs
\* up to its next request or to its end
WriteAttempt(seen, applied) ==
    /\ wrPc \in Stages
    /\ applied \in MayApply(Method(wrPc), seen)
    /\ wrSent' = Append(wrSent, [method |-> Method(wrPc), path |-> PathOf(wrPc)])
    /\ srvIssues' = IF applied /\ wrPc = "postIssue" THEN srvIssues + 1 ELSE srvIssues
    /\ srvNotes' = IF applied /\ wrPc = "postNote" THEN srvNotes + 1 ELSE srvNotes
    /\ srvPuts' = IF applied /\ wrPc = "put" THEN srvPuts + 1 ELSE srvPuts
    /\ LET o == SeenOutcome(wrClient, seen, wrAttempt, wrMaxRetries)
           \* the catch blocks around the two GETs swallow the error
           caught == o.next = "throw" /\ Method(wrPc) = "GET"
           keys == IF wrPc = "getIssue" /\ o.next # "retry"
                   THEN wrKeys \cup {"labels"}
                   ELSE IF wrPc = "getUsers" /\ o.next = "return"
                           /\ o.value = "parsed"
                   THEN wrKeys \cup {"assignee_ids"}
                   ELSE wrKeys
       IN  IF o.next = "retry"
           THEN /\ wrAttempt' = wrAttempt + 1
                /\ UNCHANGED <<wrPc, wrKeys, wrFailed>>
           ELSE IF o.next = "throw" /\ ~caught
           THEN /\ wrPc' = "thrown"
                /\ wrFailed' = wrPc
                /\ wrAttempt' = 0
                /\ UNCHANGED wrKeys
           ELSE IF wrPc = "postIssue" /\ o.value = "undefined"
           THEN \* created is undefined: created.iid throws (adapter.ts),
                \* the created == null test throws (part_003)
                /\ wrPc' = "thrown"
                /\ wrFailed' = "emptyBody"
                /\ wrAttempt' = 0
                /\ UNCHANGED wrKeys
           ELSE /\ wrKeys' = keys
                /\ wrPc' = NextStage(wrAdapter, wrCall, keys, wrPc)
                /\ wrAttempt' = IF wrPc' = "returned" THEN 0 ELSE 1
                /\ UNCHANGED wrFailed
    /\ UNCHANGED <<wrClient, wrAdapter, wrMaxRetries, wrCall>>
    /\ UNCHANGED <<reqVars, whVars, regVars, tkVars, shVars, urlVars>>

NextWrite ==
    \/ WriteCall
    \/ \E seen \in Seen, applied \in BOOLEAN : WriteAttempt(seen, applied)

SpecWrite == InitWrite /\ [][NextWrite]_vars

(***************************************************************************)
(* Properties of the writing calls                                         *)
(***************************************************************************)
\* C21: one createIssue call creates at most one issue on the server and one
\* updateIssue call creates at most one note: a POST whose earlier attempt
\* the server may have carried out is not sent again.
C21_PostAtMostOnce ==
    /\ wrCall.op = "createIssue" => srvIssues <= 1
    /\ wrCall.op = "updateIssue" => srvNotes <= 1

IsNotePost(e) == e.method = "POST" /\ e.path = "notes"

IsPut(e) == e.method = "PUT"

\* C22: in an updateIssue call every note POST is sent before every PUT, and
\* with a comment a PUT is sent only after a note POST; when the note POST
\* fails the call throws and no PUT has been sent; when the PUT fails the
\* call throws, the note stays on the server and nothing is sent after the
\* failed PUT.
C22_NoteBeforePut ==
    wrCall.op = "updateIssue" =>
        /\ \A i \in DOMAIN wrSent, j \in DOMAIN wrSent :
                (IsNotePost(wrSent[i]) /\ IsPut(wrSent[j])) => i < j
        /\ (wrCall.comment /\ \E j \in DOMAIN wrSent : IsPut(wrSent[j])) =>
                /\ \E i \in DOMAIN wrSent : IsNotePost(wrSent[i])
                /\ srvNotes >= 1
        /\ wrFailed = "postNote" =>
                /\ wrPc = "thrown"
                /\ ~\E j \in DOMAIN wrSent : IsPut(wrSent[j])
                /\ srvPuts = 0
        /\ (wrFailed = "put" /\ wrCall.comment) =>
                /\ wrPc = "thrown"
                /\ srvNotes >= 1
                /\ IsPut(wrSent[Len(wrSent)])

C22_Witness ==
    /\ wrCall.op = "updateIssue"
    /\ wrCall.comment
    /\ wrCall.state = "closed"
    /\ wrFailed = "put"
    /\ srvNotes = 1
    /\ srvPuts = 0
    /\ wrSent = <<[method |-> "POST", path |-> "notes"],
                  [method |-> "PUT", path |-> "issue"]>>

====
